---------------------------- MODULE Spec2Model ----------------------------
(***************************************************************************)
(* A model of the Kiro provider's protocol adapter: the byte event parser  *)
(* (src/src/event-parser.ts) and the request orchestrator streamKiro       *)
(* (src/src/stream.ts).                                                    *)
(*                                                                         *)
(* Text is modelled as a sequence of one-character strings, so that        *)
(* offsets, anchors and chunk boundaries are those of the code.            *)
(***************************************************************************)
EXTENDS Integers, Sequences, FiniteSets, TLC

VARIABLES
    \* ---- one turn of streamKiro (specification Spec) ----
    pc,               \* where the turn's task is suspended
    apiKey,           \* options.apiKey is set
    modelId,          \* model.id, the caller-facing model id
    contextWindow,    \* model.contextWindow
    thinkingEnabled,  \* !!options.reasoning || model.reasoning
    badToolArgs,      \* the context holds a tool call whose string arguments are not JSON
    hasSignal,        \* options.signal is given
    signalAborted,    \* options.signal.aborted
    retryCount,
    reductionFactor,  \* in thousandths, 1000 is 1.0: the double of the code
                      \* rounded to three decimals
    request,          \* the request built last
    fetchCalls,       \* calls of fetch
    sends,            \* network attempts: fetch calls not rejected up front
    responses,        \* the responses received so far, oldest first
    body,             \* the bytes of the response body not yet read
    buffer,           \* the parser's carry-over
    totalContent,
    textBlockIndex,   \* the index of the answer block when thinking is off
    toolCalls,
    currentToolCall,  \* <<>> for null, else <<the open call>>
    thinkingParser,   \* the fields of the ThinkingTagParser
    idleTimer,        \* "none", "armed", "cleared", "fired" or "late"
    readerCancelled,  \* reader.cancel() was called
    output,           \* the AssistantMessage being assembled
    events,           \* what was pushed to the event stream
    streamEnded,      \* stream.end() was called
    \* ---- parseKiroEvents fed chunk by chunk (specification ParserSpec) ----
    pPieces,          \* the pieces the input is made of
    pPos,             \* how many characters were fed
    pBuffer,          \* the carry-over
    pEvents,          \* the events returned so far
    pCalls,           \* how many calls of the parser were made: "none", "one", "several"
    \* ---- parseKiroEvent applied to one parsed object (ClassifySpec) ----
    cObject,          \* the object JSON.parse returned
    cEvent,           \* what parseKiroEvent returned for it, once it was called
    \* ---- one ThinkingTagParser fed a text chunk by chunk (ThinkSpec) ----
    tShape,           \* the input has its markers ("closed"), no close marker
                      \* ("open") or none ("plain")
    tA,               \* the thinking text of the input
    tB,               \* the answer text of the input
    tPos,             \* how many characters were fed
    tCuts,            \* the offsets at which a chunk ended
    tParser,          \* the parser's fields, its output's content, its stream's events
    tFinal,           \* finalize() was called
    \* ---- the history functions applied to an entry list (HistorySpec) ----
    hHistory,         \* the entry list given to the function
    hTools,           \* the tool catalog given to addPlaceholderTools
    hLimit,           \* the byte budget given to truncateHistory
    hCalled,          \* the function that was called, "none" before the call
    hResult,          \* what it returned
    \* ---- the requests of one turn, attempt by attempt (RequestSpec) ----
    qMessages,        \* context.messages
    qTools,           \* context.tools: <<>> when absent, else <<the tools>>
    qSystemPrompt,    \* context.systemPrompt
    qRetryCount,      \* retryCount
    qFactor,          \* reductionFactor, in thousandths
    qSends,           \* how many requests were sent
    qRequest,         \* the request sent last
    qArrays,          \* the arrays the caller gave and the attempts made
    qHistoryArray,    \* the place in qArrays of the history of the request sent
                      \* last, 0 when it has none
    \* ---- two turns of streamKiro at once (specification PairSpec) ----
    running,          \* the turn whose task runs: its state is in the variables
                      \* of the turn; 0 when there is one turn only
    parked,           \* the state of the turn that waits
    script            \* what the transport answers to each of the two turns

turnVars == <<pc, apiKey, modelId, contextWindow, thinkingEnabled, badToolArgs,
              hasSignal,
              signalAborted, retryCount, reductionFactor, request, fetchCalls,
              sends, responses, body, buffer, totalContent, textBlockIndex,
              toolCalls, currentToolCall, thinkingParser, idleTimer,
              readerCancelled, output, events, streamEnded>>
parserVars == <<pPieces, pPos, pBuffer, pEvents, pCalls>>
classifyVars == <<cObject, cEvent>>
thinkVars == <<tShape, tA, tB, tPos, tCuts, tParser, tFinal>>
historyVars == <<hHistory, hTools, hLimit, hCalled, hResult>>
requestVars == <<qMessages, qTools, qSystemPrompt, qRetryCount, qFactor, qSends, qRequest,
                 qArrays, qHistoryArray>>
libVars == <<classifyVars, thinkVars, historyVars, requestVars>>
pairVars == <<running, parked, script>>
vars == <<turnVars, parserVars, libVars, pairVars>>

-----------------------------------------------------------------------------
(* Strings *)

Max(a, b) == IF a >= b THEN a ELSE b

\* s.substring(from) with a 0-based offset
Substring(s, from) == SubSeq(s, from + 1, Len(s))

\* s.substring(from, to) with 0-based offsets, to excluded
Slice(s, from, to) == SubSeq(s, from + 1, to)

\* whether pat occurs in s at the 0-based offset i
MatchAt(s, pat, i) ==
    /\ i + Len(pat) <= Len(s)
    /\ \A k \in 1..Len(pat) : s[i + k] = pat[k]

\* String.prototype.indexOf: the first 0-based offset >= from, or -1
IndexOf(s, pat, from) ==
    LET hits == {i \in from..(Len(s) - Len(pat)) : MatchAt(s, pat, i)}
    IN  IF hits = {} THEN -1 ELSE CHOOSE i \in hits : \A j \in hits : i <= j

\* the concatenation of the strings ss[lo..hi], by halves
RECURSIVE ConcatRange(_, _, _)
ConcatRange(ss, lo, hi) ==
    IF lo > hi THEN <<>>
    ELSE IF lo = hi THEN ss[lo]
    ELSE ConcatRange(ss, lo, (lo + hi) \div 2) \o ConcatRange(ss, ((lo + hi) \div 2) + 1, hi)

Concat(ss) == ConcatRange(ss, 1, Len(ss))

-----------------------------------------------------------------------------
(* JSON.parse and JSON.stringify, for the JSON that the inputs of this model  *)
(* use: objects, strings with the two-character escapes, unsigned integers    *)
(* and the literals true, false and null. A JavaScript value is a record      *)
(* tagged by t: "str", "num", "lit", "obj", or "undefined" for a missing      *)
(* property.                                                                  *)

Undefined == [t |-> "undefined"]
Str(s) == [t |-> "str", s |-> s]
Num(n) == [t |-> "num", n |-> n]
Lit(v) == [t |-> "lit", v |-> v]
Obj(m) == [t |-> "obj", m |-> m]

Fail == [ok |-> FALSE]

WhiteSpace == {" ", "\n", "\t", "\r"}
DigitChars == <<"0", "1", "2", "3", "4", "5", "6", "7", "8", "9">>
IsDigit(c) == \E d \in 1..10 : DigitChars[d] = c
DigitValue(c) == (CHOOSE d \in 1..10 : DigitChars[d] = c) - 1

\* the character each two-character escape of a JSON string stands for
Unescape(c) ==
    CASE c = "\"" -> "\""
      [] c = "\\" -> "\\"
      [] c = "/"  -> "/"
      [] c = "n"  -> "\n"
      [] c = "t"  -> "\t"
      [] c = "r"  -> "\r"
      [] c = "f"  -> "\f"
      [] c = "b"  -> "<BS>"
EscapeChars == {"\"", "\\", "/", "n", "t", "r", "f", "b"}

RECURSIVE SkipWs(_, _)
SkipWs(s, i) == IF i <= Len(s) /\ s[i] \in WhiteSpace THEN SkipWs(s, i + 1) ELSE i

\* one character c at index j of a string literal: st is the text so far,
\* whether the last character was a backslash, and the literal's end once seen
StringStep(st, c, j) ==
    IF st.done THEN st
    ELSE IF st.esc THEN
        IF c \in EscapeChars
        THEN [st EXCEPT !.acc = Append(@, Unescape(c)), !.esc = FALSE]
        ELSE [st EXCEPT !.done = TRUE, !.ok = FALSE]
    ELSE IF c = "\"" THEN [st EXCEPT !.done = TRUE, !.ok = TRUE, !.next = j + 1]
    ELSE IF c = "\\" THEN [st EXCEPT !.esc = TRUE]
    ELSE IF c \in {"\n", "\t", "\r", "\f", "<BS>"} THEN [st EXCEPT !.done = TRUE, !.ok = FALSE]
    ELSE [st EXCEPT !.acc = Append(@, c)]

\* StringStep over s[lo..hi] from left to right, by halves
RECURSIVE StringScan(_, _, _, _)
StringScan(s, lo, hi, st) ==
    IF lo > hi \/ st.done THEN st
    ELSE IF lo = hi THEN StringStep(st, s[lo], lo)
    ELSE StringScan(s, ((lo + hi) \div 2) + 1, hi, StringScan(s, lo, (lo + hi) \div 2, st))

\* the string literal whose opening quote is before index j
ScanString(s, j, acc) ==
    LET st == StringScan(s, j, Len(s),
                         [acc |-> acc, esc |-> FALSE, done |-> FALSE, ok |-> FALSE,
                          next |-> 0])
    IN  IF st.done /\ st.ok THEN [ok |-> TRUE, val |-> st.acc, next |-> st.next] ELSE Fail

RECURSIVE ScanDigits(_, _, _)
ScanDigits(s, j, n) ==
    IF j <= Len(s) /\ IsDigit(s[j])
    THEN ScanDigits(s, j + 1, 10 * n + DigitValue(s[j]))
    ELSE [ok |-> TRUE, val |-> Num(n), next |-> j]

\* obj[k] = v, keeping the place of a key that is already there
SetMember(m, k, v) ==
    IF \E i \in 1..Len(m) : m[i].k = k
    THEN [i \in 1..Len(m) |-> IF m[i].k = k THEN [k |-> k, v |-> v] ELSE m[i]]
    ELSE Append(m, [k |-> k, v |-> v])

RECURSIVE ParseValue(_, _), ParseMembers(_, _, _)
ParseValue(s, i0) ==
    LET i == SkipWs(s, i0) IN
    IF i > Len(s) THEN Fail
    ELSE IF s[i] = "\"" THEN
        LET r == ScanString(s, i + 1, <<>>) IN
        IF r.ok THEN [ok |-> TRUE, val |-> Str(r.val), next |-> r.next] ELSE Fail
    ELSE IF s[i] = "{" THEN
        LET j == SkipWs(s, i + 1) IN
        IF j <= Len(s) /\ s[j] = "}"
        THEN [ok |-> TRUE, val |-> Obj(<<>>), next |-> j + 1]
        ELSE ParseMembers(s, j, <<>>)
    ELSE IF IsDigit(s[i]) THEN
        IF s[i] = "0" /\ i + 1 <= Len(s) /\ IsDigit(s[i + 1]) THEN Fail
        ELSE ScanDigits(s, i, 0)
    ELSE IF MatchAt(s, <<"t", "r", "u", "e">>, i - 1)
        THEN [ok |-> TRUE, val |-> Lit("true"), next |-> i + 4]
    ELSE IF MatchAt(s, <<"f", "a", "l", "s", "e">>, i - 1)
        THEN [ok |-> TRUE, val |-> Lit("false"), next |-> i + 5]
    ELSE IF MatchAt(s, <<"n", "u", "l", "l">>, i - 1)
        THEN [ok |-> TRUE, val |-> Lit("null"), next |-> i + 4]
    ELSE Fail

\* the members of an object from index i (a key's opening quote) to its "}"
ParseMembers(s, i, acc) ==
    IF i > Len(s) \/ s[i] # "\"" THEN Fail
    ELSE
      LET key == ScanString(s, i + 1, <<>>) IN
      IF ~key.ok THEN Fail
      ELSE
        LET c == SkipWs(s, key.next) IN
        IF c > Len(s) \/ s[c] # ":" THEN Fail
        ELSE
          LET v == ParseValue(s, c + 1) IN
          IF ~v.ok THEN Fail
          ELSE
            LET e    == SkipWs(s, v.next)
                acc2 == SetMember(acc, key.val, v.val)
            IN  IF e > Len(s) THEN Fail
                ELSE IF s[e] = "}" THEN [ok |-> TRUE, val |-> Obj(acc2), next |-> e + 1]
                ELSE IF s[e] = "," THEN ParseMembers(s, SkipWs(s, e + 1), acc2)
                ELSE Fail

\* JSON.parse(text): [ok |-> FALSE] when it throws
JsonParse(text) ==
    LET r == ParseValue(text, 1) IN
    IF r.ok /\ SkipWs(text, r.next) > Len(text) THEN [ok |-> TRUE, val |-> r.val] ELSE Fail

RECURSIVE NumToStr(_)
NumToStr(n) == IF n < 10 THEN <<DigitChars[n + 1]>>
               ELSE NumToStr(n \div 10) \o <<DigitChars[(n % 10) + 1]>>

EscapeChar(c) ==
    CASE c = "\"" -> <<"\\", "\"">>
      [] c = "\\" -> <<"\\", "\\">>
      [] c = "\n" -> <<"\\", "n">>
      [] c = "\t" -> <<"\\", "t">>
      [] c = "\r" -> <<"\\", "r">>
      [] c = "\f" -> <<"\\", "f">>
      [] c = "<BS>" -> <<"\\", "b">>
      [] OTHER -> <<c>>

Quote(s) == <<"\"">> \o Concat([i \in 1..Len(s) |-> EscapeChar(s[i])]) \o <<"\"">>

\* JSON.stringify(v) of a parsed value
RECURSIVE JsonStringify(_)
JsonStringify(v) ==
    CASE v.t = "str" -> Quote(v.s)
      [] v.t = "num" -> NumToStr(v.n)
      [] v.t = "lit" -> IF v.v = "true" THEN <<"t", "r", "u", "e">>
                        ELSE IF v.v = "false" THEN <<"f", "a", "l", "s", "e">>
                        ELSE <<"n", "u", "l", "l">>
      [] v.t = "obj" ->
            <<"{">> \o
            Concat([i \in 1..Len(v.m) |->
                      (IF i > 1 THEN <<",">> ELSE <<>>) \o Quote(v.m[i].k) \o <<":">>
                      \o JsonStringify(v.m[i].v)])
            \o <<"}">>

\* parsed[key], Undefined when the object has no such property
Get(parsed, key) ==
    IF \E i \in 1..Len(parsed.m) : parsed.m[i].k = key
    THEN parsed.m[CHOOSE i \in 1..Len(parsed.m) : parsed.m[i].k = key].v
    ELSE Undefined

\* JavaScript's ToBoolean
Truthy(v) ==
    CASE v.t = "undefined" -> FALSE
      [] v.t = "str" -> v.s # <<>>
      [] v.t = "num" -> v.n # 0
      [] v.t = "lit" -> v.v = "true"
      [] v.t = "obj" -> TRUE

-----------------------------------------------------------------------------
(* The byte event parser, src/src/event-parser.ts *)

kContent   == <<"c", "o", "n", "t", "e", "n", "t">>
kName      == <<"n", "a", "m", "e">>
kToolUseId == <<"t", "o", "o", "l", "U", "s", "e", "I", "d">>
kInput     == <<"i", "n", "p", "u", "t">>
kStop      == <<"s", "t", "o", "p">>
kContextUsagePercentage ==
    <<"c", "o", "n", "t", "e", "x", "t", "U", "s", "a", "g", "e",
      "P", "e", "r", "c", "e", "n", "t", "a", "g", "e">>

\* the body of the for loop of findJsonEnd at the 0-based offset i; end is
\* the returned offset once the loop has returned
FindJsonEndStep(st, char, i) ==
    IF st.end # -1 THEN st
    ELSE IF st.escapeNext THEN [st EXCEPT !.escapeNext = FALSE]
    ELSE IF char = "\\" THEN [st EXCEPT !.escapeNext = TRUE]
    ELSE IF char = "\"" THEN [st EXCEPT !.inString = ~@]
    ELSE IF ~st.inString /\ char = "{" THEN [st EXCEPT !.braceCount = @ + 1]
    ELSE IF ~st.inString /\ char = "}" THEN
        IF st.braceCount - 1 = 0 THEN [st EXCEPT !.braceCount = @ - 1, !.end = i]
        ELSE [st EXCEPT !.braceCount = @ - 1]
    ELSE st

\* the for loop over the offsets lo..hi from left to right, by halves
RECURSIVE FindJsonEndScan(_, _, _, _)
FindJsonEndScan(text, lo, hi, st) ==
    IF lo > hi \/ st.end # -1 THEN st
    ELSE IF lo = hi THEN FindJsonEndStep(st, text[lo + 1], lo)
    ELSE FindJsonEndScan(text, ((lo + hi) \div 2) + 1, hi,
                         FindJsonEndScan(text, lo, (lo + hi) \div 2, st))

\* a variant of findJsonEnd that takes the first closing brace
findJsonEndFirstBrace(text, start) == IndexOf(text, <<"}">>, start)

findJsonEnd(text, start) ==
    FindJsonEndScan(text, start, Len(text) - 1,
                    [braceCount |-> 0, inString |-> FALSE, escapeNext |-> FALSE,
                     end |-> -1]).end

NoEvent == [type |-> "null"]

\* the input string of a tool-use-begin object
ToolUseInputOf(input) ==
    IF input.t = "str" THEN input.s
    ELSE IF Truthy(input) THEN JsonStringify(input)
    ELSE <<>>

\* parseKiroEvent with the test of stop taken alone, whatever the object holds
\* for contextUsagePercentage
parseKiroEventStopAlone(parsed) ==
    IF Get(parsed, kContent) # Undefined
      THEN [type |-> "content", data |-> Get(parsed, kContent)]
    ELSE IF Truthy(Get(parsed, kName)) /\ Truthy(Get(parsed, kToolUseId))
      THEN [type |-> "toolUse",
            data |-> [name      |-> Get(parsed, kName),
                      toolUseId |-> Get(parsed, kToolUseId),
                      input     |-> ToolUseInputOf(Get(parsed, kInput)),
                      stop      |-> Get(parsed, kStop)]]
    ELSE IF Get(parsed, kInput) # Undefined /\ ~Truthy(Get(parsed, kName))
      THEN [type |-> "toolUseInput",
            data |-> [input |-> IF Get(parsed, kInput).t = "str"
                                THEN Get(parsed, kInput).s
                                ELSE JsonStringify(Get(parsed, kInput))]]
    ELSE IF Get(parsed, kStop) # Undefined
      THEN [type |-> "toolUseStop", data |-> [stop |-> Get(parsed, kStop)]]
    ELSE IF Get(parsed, kContextUsagePercentage) # Undefined
      THEN [type |-> "contextUsage",
            data |-> [contextUsagePercentage |-> Get(parsed, kContextUsagePercentage)]]
    ELSE NoEvent

parseKiroEvent(parsed) ==
    IF Get(parsed, kContent) # Undefined
      THEN [type |-> "content", data |-> Get(parsed, kContent)]
    ELSE IF Truthy(Get(parsed, kName)) /\ Truthy(Get(parsed, kToolUseId))
      THEN [type |-> "toolUse",
            data |-> [name      |-> Get(parsed, kName),
                      toolUseId |-> Get(parsed, kToolUseId),
                      input     |-> ToolUseInputOf(Get(parsed, kInput)),
                      stop      |-> Get(parsed, kStop)]]
    ELSE IF Get(parsed, kInput) # Undefined /\ ~Truthy(Get(parsed, kName))
      THEN [type |-> "toolUseInput",
            data |-> [input |-> IF Get(parsed, kInput).t = "str"
                                THEN Get(parsed, kInput).s
                                ELSE JsonStringify(Get(parsed, kInput))]]
    ELSE IF Get(parsed, kStop) # Undefined
            /\ Get(parsed, kContextUsagePercentage) = Undefined
      THEN [type |-> "toolUseStop", data |-> [stop |-> Get(parsed, kStop)]]
    ELSE IF Get(parsed, kContextUsagePercentage) # Undefined
      THEN [type |-> "contextUsage",
            data |-> [contextUsagePercentage |-> Get(parsed, kContextUsagePercentage)]]
    ELSE NoEvent

\* the opening anchor of an object whose first key is k
Anchor(k) == <<"{", "\"">> \o k \o <<"\"", ":">>

patterns == <<Anchor(kContent), Anchor(kName), Anchor(kInput), Anchor(kStop),
              Anchor(kContextUsagePercentage)>>

\* what events.push receives for the result of parseKiroEvent: nothing for null
EventOrNone(event) == IF event = NoEvent THEN <<>> ELSE <<event>>

\* lines 83-88 for the result of JSON.parse: no event when it throws
EventsOfParsed(parsed) ==
    IF ~parsed.ok THEN <<>> ELSE EventOrNone(parseKiroEvent(parsed.val))

\* the events of the object text[jsonStart..jsonEnd]
EventsOfObject(text) == EventsOfParsed(JsonParse(text))

\* a variant of Incomplete that drops the unfinished object
IncompleteDropped(remaining, jsonStart, evs) == [events |-> evs, remaining |-> <<>>]

\* lines 77-81: the object at jsonStart has no end yet, and the result keeps
\* the buffer from its anchor on
Incomplete(remaining, jsonStart, evs) ==
    [events |-> evs, remaining |-> Substring(remaining, jsonStart)]

\* the while loop of parseKiroEvents with the statement after it; remaining is
\* the whole buffer until a break assigns it
RECURSIVE ParseLoop(_, _, _)
ParseLoop(remaining, searchStart, evs) ==
    LET candidates ==
            {IndexOf(remaining, patterns[k], searchStart) : k \in DOMAIN patterns} \ {-1}
    IN
    IF candidates = {}
    THEN [events    |-> evs,
          remaining |-> IF searchStart > 0 /\ Len(remaining) > 0
                        THEN Substring(remaining, searchStart)
                        ELSE remaining]
    ELSE
      LET jsonStart == CHOOSE c \in candidates : \A d \in candidates : c <= d
          jsonEnd   == findJsonEnd(remaining, jsonStart)
      IN
      IF jsonEnd < 0
      THEN Incomplete(remaining, jsonStart, evs)
      ELSE
        LET evs2 == evs \o EventsOfObject(Slice(remaining, jsonStart, jsonEnd + 1)) IN
        IF jsonEnd + 1 >= Len(remaining)
        THEN [events |-> evs2, remaining |-> <<>>]
        ELSE ParseLoop(remaining, jsonEnd + 1, evs2)

parseKiroEvents(buf) == ParseLoop(buf, 0, <<>>)

\* the objects of the wire format, as the service writes them
True == <<"t", "r", "u", "e">>

ContentObj(s) == Anchor(kContent) \o Quote(s) \o <<"}">>
ToolUseObj(name, id, input, stop) ==
    Anchor(kName) \o Quote(name) \o <<",">> \o Quote(kToolUseId) \o <<":">> \o Quote(id)
    \o <<",">> \o Quote(kInput) \o <<":">> \o Quote(input)
    \o (IF stop THEN <<",">> \o Quote(kStop) \o <<":">> \o True ELSE <<>>) \o <<"}">>
InputObj(s) == Anchor(kInput) \o Quote(s) \o <<"}">>
StopObj == Anchor(kStop) \o True \o <<"}">>
ContextUsageObj(n) == Anchor(kContextUsagePercentage) \o NumToStr(n) \o <<"}">>

-----------------------------------------------------------------------------
(* The model directory, src/src/models.ts *)

KIRO_MODEL_IDS ==
    { <<"c", "l", "a", "u", "d", "e", "-", "o", "p", "u", "s", "-", "4", ".", "6">>,
      <<"c", "l", "a", "u", "d", "e", "-", "o", "p", "u", "s", "-", "4", ".", "6", "-", "1", "m">>,
      <<"c", "l", "a", "u", "d", "e", "-", "s", "o", "n", "n", "e", "t", "-", "4", ".", "6">>,
      <<"c", "l", "a", "u", "d", "e", "-", "s", "o", "n", "n", "e", "t", "-", "4", ".", "6", "-", "1", "m">>,
      <<"c", "l", "a", "u", "d", "e", "-", "o", "p", "u", "s", "-", "4", ".", "5">>,
      <<"c", "l", "a", "u", "d", "e", "-", "s", "o", "n", "n", "e", "t", "-", "4", ".", "5">>,
      <<"c", "l", "a", "u", "d", "e", "-", "s", "o", "n", "n", "e", "t", "-", "4", ".", "5", "-", "1", "m">>,
      <<"c", "l", "a", "u", "d", "e", "-", "s", "o", "n", "n", "e", "t", "-", "4">>,
      <<"c", "l", "a", "u", "d", "e", "-", "h", "a", "i", "k", "u", "-", "4", ".", "5">>,
      <<"d", "e", "e", "p", "s", "e", "e", "k", "-", "3", ".", "2">>,
      <<"k", "i", "m", "i", "-", "k", "2", ".", "5">>,
      <<"m", "i", "n", "i", "m", "a", "x", "-", "m", "2", ".", "1">>,
      <<"g", "l", "m", "-", "4", ".", "7">>,
      <<"g", "l", "m", "-", "4", ".", "7", "-", "f", "l", "a", "s", "h">>,
      <<"q", "w", "e", "n", "3", "-", "c", "o", "d", "e", "r", "-", "n", "e", "x", "t">>,
      <<"a", "g", "i", "-", "n", "o", "v", "a", "-", "b", "e", "t", "a", "-", "1", "m">>,
      <<"q", "w", "e", "n", "3", "-", "c", "o", "d", "e", "r", "-", "4", "8", "0", "b">> }

\* id.replace(/(\d)-(\d)/g, "$1.$2") from the 1-based index i on: matches are
\* taken left to right and do not overlap
RECURSIVE DashesToDots(_, _)
DashesToDots(id, i) ==
    IF i > Len(id) THEN <<>>
    ELSE IF i + 2 <= Len(id) /\ IsDigit(id[i]) /\ id[i + 1] = "-" /\ IsDigit(id[i + 2])
      THEN <<id[i], ".", id[i + 2]>> \o DashesToDots(id, i + 3)
    ELSE <<id[i]>> \o DashesToDots(id, i + 1)

\* a variant of resolveKiroModel that accepts every id
resolveAnyModel(id) == [ok |-> TRUE, val |-> DashesToDots(id, 1)]

\* resolveKiroModel: the transport model id, or [ok |-> FALSE] when it throws
resolveKiroModel(id) ==
    LET kiroId == DashesToDots(id, 1) IN
    IF kiroId \in KIRO_MODEL_IDS THEN [ok |-> TRUE, val |-> kiroId] ELSE Fail

-----------------------------------------------------------------------------
(* The thinking extractor, class ThinkingTagParser. Its fields, the content  *)
(* of the output message and the pushed events are the fields of one record  *)
(* m; a null index is Null.                                                  *)

Null == -1

THINKING_START_TAG == <<"<", "t", "h", "i", "n", "k", "i", "n", "g", ">">>
THINKING_END_TAG == <<"<", "/", "t", "h", "i", "n", "k", "i", "n", "g", ">">>

NewThinkingTagParser ==
    [textBuffer |-> <<>>, inThinking |-> FALSE, thinkingExtracted |-> FALSE,
     thinkingBlockIndex |-> Null, textBlockIndex |-> Null]

emitText(m, text) ==
    LET m1 == IF m.textBlockIndex = Null
              THEN [m EXCEPT !.textBlockIndex = Len(m.content),
                             !.content = Append(@, [type |-> "text", text |-> <<>>]),
                             !.events = Append(@, [type |-> "text_start",
                                                   contentIndex |-> Len(m.content)])]
              ELSE m
    IN  [m1 EXCEPT !.content[m1.textBlockIndex + 1].text = @ \o text,
                   !.events = Append(@, [type |-> "text_delta",
                                         contentIndex |-> m1.textBlockIndex,
                                         delta |-> text])]

emitThinking(m, thinking) ==
    LET m1 == IF m.thinkingBlockIndex = Null
              THEN [m EXCEPT !.thinkingBlockIndex = Len(m.content),
                             !.content = Append(@, [type |-> "thinking",
                                                    thinking |-> <<>>]),
                             !.events = Append(@, [type |-> "thinking_start",
                                                   contentIndex |-> Len(m.content)])]
              ELSE m
    IN  [m1 EXCEPT !.content[m1.thinkingBlockIndex + 1].thinking = @ \o thinking,
                   !.events = Append(@, [type |-> "thinking_delta",
                                         contentIndex |-> m1.thinkingBlockIndex,
                                         delta |-> thinking])]

\* the push of thinking_end, when a thinking block exists
PushThinkingEnd(m) ==
    IF m.thinkingBlockIndex # Null
    THEN [m EXCEPT !.events =
            Append(@, [type |-> "thinking_end", contentIndex |-> m.thinkingBlockIndex,
                       content |-> m.content[m.thinkingBlockIndex + 1].thinking])]
    ELSE m

\* a variant of processBeforeThinking that keeps back one character less than
\* the open marker has
processBeforeThinkingShort(m) ==
    LET startPos == IndexOf(m.textBuffer, THINKING_START_TAG, 0) IN
    IF startPos # -1
    THEN LET m1 == IF startPos > 0 THEN emitText(m, Slice(m.textBuffer, 0, startPos))
                   ELSE m
         IN  [m1 EXCEPT !.textBuffer = Substring(@, startPos + Len(THINKING_START_TAG)),
                        !.inThinking = TRUE]
    ELSE LET safeLen == Max(0, Len(m.textBuffer) - (Len(THINKING_START_TAG) - 1)) IN
         IF safeLen > 0
         THEN [emitText(m, Slice(m.textBuffer, 0, safeLen))
                  EXCEPT !.textBuffer = Substring(@, safeLen)]
         ELSE m

processBeforeThinking(m) ==
    LET startPos == IndexOf(m.textBuffer, THINKING_START_TAG, 0) IN
    IF startPos # -1
    THEN LET m1 == IF startPos > 0 THEN emitText(m, Slice(m.textBuffer, 0, startPos))
                   ELSE m
         IN  [m1 EXCEPT !.textBuffer = Substring(@, startPos + Len(THINKING_START_TAG)),
                        !.inThinking = TRUE]
    ELSE LET safeLen == Max(0, Len(m.textBuffer) - Len(THINKING_START_TAG)) IN
         IF safeLen > 0
         THEN [emitText(m, Slice(m.textBuffer, 0, safeLen))
                  EXCEPT !.textBuffer = Substring(@, safeLen)]
         ELSE m

\* a variant of LeaveThinking that also takes a single line feed after the
\* end tag
LeaveThinkingTrimmed(m, rest) ==
    [m EXCEPT !.textBuffer = IF MatchAt(rest, <<"\n", "\n">>, 0) THEN Substring(rest, 2)
                             ELSE IF MatchAt(rest, <<"\n">>, 0) THEN Substring(rest, 1)
                             ELSE rest,
              !.inThinking = FALSE,
              !.thinkingExtracted = TRUE]

\* the part of processInsideThinking after the end tag was found at endPos:
\* the tag and one blank line after it leave the buffer
LeaveThinking(m, rest) ==
    [m EXCEPT !.textBuffer = IF MatchAt(rest, <<"\n", "\n">>, 0)
                             THEN Substring(rest, 2) ELSE rest,
              !.inThinking = FALSE,
              !.thinkingExtracted = TRUE]

processInsideThinking(m) ==
    LET endPos == IndexOf(m.textBuffer, THINKING_END_TAG, 0) IN
    IF endPos # -1
    THEN LeaveThinking(
           PushThinkingEnd(IF endPos > 0
                           THEN emitThinking(m, Slice(m.textBuffer, 0, endPos))
                           ELSE m),
           Substring(m.textBuffer, endPos + Len(THINKING_END_TAG)))
    ELSE LET safeLen == Max(0, Len(m.textBuffer) - Len(THINKING_END_TAG)) IN
         IF safeLen > 0
         THEN [emitThinking(m, Slice(m.textBuffer, 0, safeLen))
                  EXCEPT !.textBuffer = Substring(@, safeLen)]
         ELSE m

processAfterThinking(m) == [emitText(m, m.textBuffer) EXCEPT !.textBuffer = <<>>]

\* the while loop of processChunk: one pass is LoopBefore, LoopInside and
\* LoopAfter, each given the parser as the step before left it
RECURSIVE ProcessLoop(_)

\* lines 219-223 of a pass that started with buffer length prevLength; m1 is
\* the parser after the step inside thinking, when one was taken
LoopAfter(m1, prevLength) ==
    IF m1.thinkingExtracted THEN processAfterThinking(m1)
    ELSE IF Len(m1.textBuffer) >= prevLength THEN m1
    ELSE ProcessLoop(m1)

\* lines 215-218
LoopInside(m, prevLength) ==
    IF m.inThinking
    THEN IF Len(processInsideThinking(m).textBuffer) = 0 THEN processInsideThinking(m)
         ELSE LoopAfter(processInsideThinking(m), prevLength)
    ELSE LoopAfter(m, prevLength)

\* a variant of lines 211-214 that looks for an open marker again after a
\* thinking section was extracted
LoopBeforeAgain(m) ==
    IF ~m.inThinking
    THEN IF Len(processBeforeThinking(m).textBuffer) = 0 THEN processBeforeThinking(m)
         ELSE LoopInside(processBeforeThinking(m), Len(m.textBuffer))
    ELSE LoopInside(m, Len(m.textBuffer))

\* lines 211-214
LoopBefore(m) ==
    IF ~m.inThinking /\ ~m.thinkingExtracted
    THEN IF Len(processBeforeThinking(m).textBuffer) = 0 THEN processBeforeThinking(m)
         ELSE LoopInside(processBeforeThinking(m), Len(m.textBuffer))
    ELSE LoopInside(m, Len(m.textBuffer))

ProcessLoop(m) == IF Len(m.textBuffer) = 0 THEN m ELSE LoopBefore(m)

processChunk(m, chunk) == ProcessLoop([m EXCEPT !.textBuffer = @ \o chunk])

finalize(m) ==
    IF Len(m.textBuffer) = 0 THEN m
    ELSE IF m.inThinking /\ m.thinkingBlockIndex # Null
      THEN LET m1 == [m EXCEPT
                        !.content[m.thinkingBlockIndex + 1].thinking = @ \o m.textBuffer,
                        !.events = Append(@, [type |-> "thinking_delta",
                                              contentIndex |-> m.thinkingBlockIndex,
                                              delta |-> m.textBuffer])]
           IN  [PushThinkingEnd(m1) EXCEPT !.textBuffer = <<>>]
    ELSE [emitText(m, m.textBuffer) EXCEPT !.textBuffer = <<>>]

-----------------------------------------------------------------------------
(* History entries (the types of stream.ts, lines 372-403) and the history   *)
(* management of src/unnamed/part_004. An optional property is <<>> when it  *)
(* is absent and <<v>> when it has the value v. A text is the characters s   *)
(* followed by fill more characters that need no escape in JSON, so that a   *)
(* text of several hundred thousand characters has a size without having     *)
(* every character written down. The model has no images.                    *)

Text(s) == [s |-> s, fill |-> 0]
Filled(s, n) == [s |-> s, fill |-> n]

\* text.length
TextLength(t) == Len(t.s) + t.fill

\* JSON.stringify(text).length
TextSize(t) == Len(Quote(t.s)) + t.fill

\* { userInputMessage: { content, modelId, origin, userInputMessageContext? } }
UserTurn(content, kiroModelId, toolResults) ==
    [userInputMessage |-> <<[content |-> content, modelId |-> kiroModelId,
                             toolResults |-> toolResults]>>,
     assistantResponseMessage |-> <<>>]

\* { assistantResponseMessage: { content, toolUses? } }
AssistantTurn(content, toolUses) ==
    [userInputMessage |-> <<>>,
     assistantResponseMessage |-> <<[content |-> content, toolUses |-> toolUses]>>]

\* { name, toolUseId, input: {} }
ToolUse(name, toolUseId) == [name |-> name, toolUseId |-> toolUseId]

\* { content: [{ text }], status, toolUseId }
ToolResult(text, status, toolUseId) ==
    [text |-> text, status |-> status, toolUseId |-> toolUseId]

IsUser(m) == m.userInputMessage # <<>>
IsAssistant(m) == m.assistantResponseMessage # <<>>

\* m.assistantResponseMessage?.toolUses, taken as a condition: an array, even
\* an empty one, counts as true
HasToolUses(m) == IsAssistant(m) /\ m.assistantResponseMessage[1].toolUses # <<>>

\* m.userInputMessage?.userInputMessageContext?.toolResults, as a condition
HasToolResults(m) == IsUser(m) /\ m.userInputMessage[1].toolResults # <<>>

\* entry.assistantResponseMessage?.toolUses ?? []
ToolUsesOf(m) == IF HasToolUses(m) THEN m.assistantResponseMessage[1].toolUses[1] ELSE <<>>

ToolResultsOf(m) == IF HasToolResults(m) THEN m.userInputMessage[1].toolResults[1] ELSE <<>>

Range(f) == {f[k] : k \in DOMAIN f}

RECURSIVE Sum(_)
Sum(ns) == IF ns = <<>> THEN 0 ELSE Head(ns) + Sum(Tail(ns))

\* JSON.stringify(array).length, given the sizes of its elements
ArraySize(sizes) == Len("[]") + Sum(sizes) + Max(0, Len(sizes) - 1)

ToolUseSize(tu) ==
    Len("{\"name\":") + Len(Quote(tu.name)) + Len(",\"toolUseId\":")
    + Len(Quote(tu.toolUseId)) + Len(",\"input\":{}}")

ToolResultSize(tr) ==
    Len("{\"content\":[{\"text\":") + Len(Quote(tr.text)) + Len("}],\"status\":")
    + Len(Quote(tr.status)) + Len(",\"toolUseId\":") + Len(Quote(tr.toolUseId))
    + Len("}")

\* JSON.stringify(entry).length
EntrySize(m) ==
    (IF IsUser(m)
     THEN Len("\"userInputMessage\":{\"content\":")
          + TextSize(m.userInputMessage[1].content)
          + Len(",\"modelId\":") + Len(Quote(m.userInputMessage[1].modelId))
          + Len(",\"origin\":\"AI_EDITOR\"")
          + (IF HasToolResults(m)
             THEN Len(",\"userInputMessageContext\":{\"toolResults\":")
                  + ArraySize([i \in 1..Len(ToolResultsOf(m)) |->
                                 ToolResultSize(ToolResultsOf(m)[i])])
                  + Len("}")
             ELSE 0)
          + Len("}")
     ELSE 0)
    + (IF IsUser(m) /\ IsAssistant(m) THEN Len(",") ELSE 0)
    + (IF IsAssistant(m)
       THEN Len("\"assistantResponseMessage\":{\"content\":")
            + TextSize(m.assistantResponseMessage[1].content)
            + (IF HasToolUses(m)
               THEN Len(",\"toolUses\":")
                    + ArraySize([i \in 1..Len(ToolUsesOf(m)) |->
                                   ToolUseSize(ToolUsesOf(m)[i])])
               ELSE 0)
            + Len("}")
       ELSE 0)
    + Len("{}")

\* JSON.stringify(history).length
HistorySize(history) == ArraySize([i \in 1..Len(history) |-> EntrySize(history[i])])

\* lines 22-26 of sanitizeHistory: a result that does not start with a user
\* turn without tool results is given up whole
StartsWithUser(result) ==
    IF Len(result) > 0 /\ (~IsUser(result[1]) \/ HasToolResults(result[1]))
    THEN <<>> ELSE result

\* the loop of sanitizeHistory from entry i on, lines 9-21
RECURSIVE SanitizeFrom(_, _, _)
SanitizeFrom(history, i, result) ==
    IF i > Len(history) THEN result
    ELSE IF HasToolUses(history[i])
      THEN SanitizeFrom(history, i + 1,
             IF i < Len(history) /\ HasToolResults(history[i + 1])
             THEN Append(result, history[i]) ELSE result)
    ELSE IF HasToolResults(history[i])
      THEN SanitizeFrom(history, i + 1,
             IF Len(result) > 0 /\ HasToolUses(result[Len(result)])
             THEN Append(result, history[i]) ELSE result)
    ELSE SanitizeFrom(history, i + 1, Append(result, history[i]))

\* sanitizeHistory without the test of the first entry
sanitizeAnyStart(history) == SanitizeFrom(history, 1, <<>>)

sanitizeHistory(history) == StartsWithUser(SanitizeFrom(history, 1, <<>>))

\* the tool-use ids of the entries from i on that JavaScript takes for true
RECURSIVE DeclaredIds(_, _)
DeclaredIds(history, i) ==
    IF i > Len(history) THEN {}
    ELSE ({ToolUsesOf(history[i])[k].toolUseId : k \in 1..Len(ToolUsesOf(history[i]))}
            \ {<<>>})
         \cup DeclaredIds(history, i + 1)

UNKNOWN_TOOL == <<"u", "n", "k", "n", "o", "w", "n", "_", "t", "o", "o", "l">>
ToolCallsWereMade ==
    Text(<<"T", "o", "o", "l", " ", "c", "a", "l", "l", "s", " ", "w", "e", "r", "e",
           " ", "m", "a", "d", "e", ".">>)

\* the synthesized assistant turn for the orphaned tool results, lines 42-47
Synthetic(orphaned) ==
    AssistantTurn(ToolCallsWereMade,
                  <<[k \in 1..Len(orphaned) |->
                       ToolUse(UNKNOWN_TOOL, orphaned[k].toolUseId)]>>)

\* toolResults.filter((tr) => !validIds.has(tr.toolUseId))
Orphaned(toolResults, validIds) ==
    SelectSeq(toolResults, LAMBDA tr : tr.toolUseId \notin validIds)

\* the second loop of injectSyntheticToolCalls from entry i on, lines 37-52
RECURSIVE InjectFrom(_, _, _, _)
InjectFrom(history, i, validIds, result) ==
    IF i > Len(history) THEN result
    ELSE IF HasToolResults(history[i])
            /\ Len(Orphaned(ToolResultsOf(history[i]), validIds)) > 0
      THEN InjectFrom(history, i + 1,
             validIds \cup {tr.toolUseId : tr \in
                              Range(Orphaned(ToolResultsOf(history[i]), validIds))},
             result \o <<Synthetic(Orphaned(ToolResultsOf(history[i]), validIds)),
                         history[i]>>)
    ELSE InjectFrom(history, i + 1, validIds, Append(result, history[i]))

\* the second loop without line 48: the orphaned ids are not registered
RECURSIVE InjectUnregistered(_, _, _, _)
InjectUnregistered(history, i, validIds, result) ==
    IF i > Len(history) THEN result
    ELSE IF HasToolResults(history[i])
            /\ Len(Orphaned(ToolResultsOf(history[i]), validIds)) > 0
      THEN InjectUnregistered(history, i + 1, validIds,
             result \o <<Synthetic(Orphaned(ToolResultsOf(history[i]), validIds)),
                         history[i]>>)
    ELSE InjectUnregistered(history, i + 1, validIds, Append(result, history[i]))

injectEveryTime(history) ==
    InjectUnregistered(history, 1, DeclaredIds(history, 1), <<>>)

injectSyntheticToolCalls(history) ==
    InjectFrom(history, 1, DeclaredIds(history, 1), <<>>)

\* while (sanitized.length > 0 && !sanitized[0]?.userInputMessage) sanitized.shift()
RECURSIVE ShiftToUser(_)
ShiftToUser(sanitized) ==
    IF Len(sanitized) > 0 /\ ~IsUser(sanitized[1]) THEN ShiftToUser(Tail(sanitized))
    ELSE sanitized

\* the loop of truncateHistory, lines 59-64
RECURSIVE TruncateLoop(_, _)
TruncateLoop(sanitized, limit) ==
    IF HistorySize(sanitized) > limit /\ Len(sanitized) > 2
    THEN TruncateLoop(sanitizeHistory(ShiftToUser(Tail(sanitized))), limit)
    ELSE sanitized

truncateHistory(history, limit) ==
    injectSyntheticToolCalls(TruncateLoop(sanitizeHistory(history), limit))

\* names.add(name) of a Set, which keeps the order of the first insertions
AddName(names, name) ==
    IF name = <<>> \/ \E k \in 1..Len(names) : names[k] = name THEN names
    ELSE Append(names, name)

RECURSIVE AddNames(_, _, _)
AddNames(names, toolUses, k) ==
    IF k > Len(toolUses) THEN names
    ELSE AddNames(AddName(names, toolUses[k].name), toolUses, k + 1)

\* the names of the tool uses of the entries from i on, in the order of the Set
RECURSIVE ExtractFrom(_, _, _)
ExtractFrom(history, i, names) ==
    IF i > Len(history) THEN names
    ELSE ExtractFrom(history, i + 1, AddNames(names, ToolUsesOf(history[i]), 1))

extractToolNamesFromHistory(history) == ExtractFrom(history, 1, <<>>)

\* { toolSpecification: { name, description, inputSchema: { json } } }
ToolSpec(name, description, json) ==
    [name |-> name, description |-> description, json |-> json]

\* { type: "object", properties: {} }
EmptyObjectSchema == [type |-> "object", properties |-> {}]

PlaceholderTool(name) == ToolSpec(name, <<"T", "o", "o", "l">>, EmptyObjectSchema)

\* Array.from(historyNames).filter((n) => !existing.has(n))
MissingNames(tools, historyNames) ==
    SelectSeq(historyNames,
              LAMBDA n : ~\E k \in 1..Len(tools) : tools[k].name = n)

addPlaceholderTools(tools, history) ==
    tools \o [k \in 1..Len(MissingNames(tools, extractToolNamesFromHistory(history)))
                |-> PlaceholderTool(
                      MissingNames(tools, extractToolNamesFromHistory(history))[k])]

-----------------------------------------------------------------------------
(* The request of one attempt: the helpers of transform.ts (stream.ts lines   *)
(* 405-551) and lines 98-210 of streamKiro. A user message has a string for   *)
(* its content, an assistant message an array of text, thinking and toolCall  *)
(* blocks, a tool result one text; the arguments of a tool call are the       *)
(* object {}. A UTF-16 surrogate is written as one of the two characters of   *)
(* Surrogates.                                                                *)

HISTORY_LIMIT == 850000
TOOL_RESULT_LIMIT == 250000
SystemPromptLimit == 5000

\* Math.floor(n * reductionFactor), r being the factor in thousandths. The
\* doubles for 0.49 and 0.343 lie just below the decimals, so that a product
\* that would be a whole number is floored one lower: 850000 gives 416499 and
\* 291549. For 0.7 the products formed here, of the three limits and of
\* n < 90, are floored as the exact ones are.
FloorTimes(n, r) ==
    IF r \in {490, 343} /\ n > 0 /\ (n * r) % 1000 = 0
    THEN ((n * r) \div 1000) - 1
    ELSE (n * r) \div 1000

Surrogates == {"<D83D>", "<DE00>"}
ReplacementChar == "<FFFD>"

\* text.replace(/[\uD800-\uDFFF]/g, "\uFFFD")
sanitizeSurrogates(text) ==
    [text EXCEPT !.s = [k \in 1..Len(text.s) |->
                          IF text.s[k] \in Surrogates THEN ReplacementChar
                          ELSE text.s[k]]]

TruncatedMark ==
    <<"\n", ".", ".", ".", " ", "[", "T", "R", "U", "N", "C", "A", "T", "E", "D", "]",
      " ", ".", ".", ".", "\n">>

truncate(text, limit) ==
    IF Len(text) <= limit THEN text
    ELSE Slice(text, 0, limit \div 2) \o TruncatedMark
         \o Substring(text, Len(text) - (limit \div 2))

UserMessage(content) == [role |-> "user", content |-> content]
AssistantMessage(content, stopReason) ==
    [role |-> "assistant", content |-> content, stopReason |-> stopReason]
ToolResultMessage(toolCallId, text, isError) ==
    [role |-> "toolResult", toolCallId |-> toolCallId, text |-> text, isError |-> isError]
TextBlock(text) == [type |-> "text", text |-> text]
ThinkingBlock(thinking) == [type |-> "thinking", thinking |-> thinking]
ToolCallBlock(name, id) == [type |-> "toolCall", name |-> name, id |-> id]

\* { name, description, parameters }
Tool(name, description, parameters) ==
    [name |-> name, description |-> description, parameters |-> parameters]

\* only the messages of a turn that ended in an error are dropped
normalizeErrorsOnly(messages) ==
    SelectSeq(messages,
              LAMBDA msg : msg.role # "assistant" \/ msg.stopReason # "error")

normalizeMessages(messages) ==
    SelectSeq(messages,
              LAMBDA msg : msg.role # "assistant"
                           \/ msg.stopReason \notin {"error", "aborted"})

convertToolsToKiro(tools) ==
    [k \in 1..Len(tools) |->
       ToolSpec(tools[k].name, tools[k].description, tools[k].parameters)]

ContinueText == <<"C", "o", "n", "t", "i", "n", "u", "e">>
ToolResultsProvided ==
    <<"T", "o", "o", "l", " ", "r", "e", "s", "u", "l", "t", "s", " ",
      "p", "r", "o", "v", "i", "d", "e", "d", ".">>
Success == <<"s", "u", "c", "c", "e", "s", "s">>
Error == <<"e", "r", "r", "o", "r">>

\* the armContent and armToolUses loop over the blocks, lines 500-514 and 122-138
RECURSIVE Arm(_, _, _)
Arm(content, i, arm) ==
    IF i > Len(content) THEN arm
    ELSE Arm(content, i + 1,
             CASE content[i].type = "text" ->
                    [arm EXCEPT !.content = @ \o content[i].text]
               [] content[i].type = "thinking" ->
                    [arm EXCEPT !.content = THINKING_START_TAG \o content[i].thinking
                                            \o THINKING_END_TAG \o <<"\n", "\n">> \o @]
               [] content[i].type = "toolCall" ->
                    [arm EXCEPT !.toolUses = Append(@, ToolUse(content[i].name, content[i].id))]
               [] OTHER -> arm)

ArmOf(msg) == Arm(msg.content, 1, [content |-> <<>>, toolUses |-> <<>>])

\* armContent || armToolUses.length > 0
ArmGiven(arm) == arm.content # <<>> \/ Len(arm.toolUses) > 0

\* { assistantResponseMessage: { content: armContent, toolUses? } }
ArmTurn(arm) ==
    AssistantTurn(Text(arm.content),
                  IF Len(arm.toolUses) > 0 THEN <<arm.toolUses>> ELSE <<>>)

\* the KiroToolResult of a toolResult message
KiroResult(msg, toolResultLimit) ==
    ToolResult(truncate(msg.text, toolResultLimit),
               IF msg.isError THEN Error ELSE Success,
               msg.toolCallId)

KiroResults(msgs, toolResultLimit) ==
    [k \in 1..Len(msgs) |-> KiroResult(msgs[k], toolResultLimit)]

\* `${systemPrompt}\n\n${content}`
WithSystemPrompt(systemPrompt, content) ==
    [content EXCEPT !.s = systemPrompt \o <<"\n", "\n">> \o @]

LastIsUser(history) == Len(history) > 0 /\ IsUser(history[Len(history)])

\* lines 494-495 and 538-539: an assistant turn "Continue" after a user turn
ContinueAfterUser(history) ==
    IF LastIsUser(history) THEN Append(history, AssistantTurn(Text(ContinueText), <<>>))
    ELSE history

\* lines 470-475, with the 0-based index of the code
RECURSIVE WalkBack(_, _)
WalkBack(messages, idx) ==
    IF idx > 0 /\ messages[idx + 1].role = "toolResult"
    THEN WalkBack(messages, idx - 1) ELSE idx

HasToolCall(msg) == \E k \in 1..Len(msg.content) : msg.content[k].type = "toolCall"

CurrentMsgStartIdx(messages) ==
    IF WalkBack(messages, Len(messages) - 1) >= 0
       /\ messages[WalkBack(messages, Len(messages) - 1) + 1].role = "assistant"
       /\ ~HasToolCall(messages[WalkBack(messages, Len(messages) - 1) + 1])
    THEN WalkBack(messages, Len(messages) - 1) + 1
    ELSE WalkBack(messages, Len(messages) - 1)

\* the last place of the run of toolResult messages that starts at place i
RECURSIVE RunEnd(_, _)
RunEnd(msgs, i) ==
    IF i < Len(msgs) /\ msgs[i + 1].role = "toolResult" THEN RunEnd(msgs, i + 1) ELSE i

\* the user branch of the loop, lines 481-496
BuildUser(msg, kiroModelId, systemPrompt, st) ==
    [history |->
       Append(ContinueAfterUser(st.history),
              UserTurn(sanitizeSurrogates(IF systemPrompt # <<>> /\ ~st.systemPrepended
                                          THEN WithSystemPrompt(systemPrompt, msg.content)
                                          ELSE msg.content),
                       kiroModelId, <<>>)),
     systemPrepended |-> st.systemPrepended \/ systemPrompt # <<>>]

\* the assistant branch, lines 497-518
BuildAssistant(msg, st) ==
    IF ArmGiven(ArmOf(msg))
    THEN [st EXCEPT !.history = Append(@, ArmTurn(ArmOf(msg)))]
    ELSE st

\* the toolResult branch for the run of messages i..j, lines 519-547
BuildToolResults(run, kiroModelId, toolResultLimit, st) ==
    [st EXCEPT !.history =
       Append(ContinueAfterUser(@),
              UserTurn(Text(ToolResultsProvided), kiroModelId,
                       <<KiroResults(run, toolResultLimit)>>))]

\* the loop of buildHistory over historyMessages, lines 479-549
RECURSIVE BuildFrom(_, _, _, _, _, _)
BuildFrom(msgs, i, kiroModelId, systemPrompt, toolResultLimit, st) ==
    IF i > Len(msgs) THEN st
    ELSE CASE msgs[i].role = "user" ->
                BuildFrom(msgs, i + 1, kiroModelId, systemPrompt, toolResultLimit,
                          BuildUser(msgs[i], kiroModelId, systemPrompt, st))
           [] msgs[i].role = "assistant" ->
                BuildFrom(msgs, i + 1, kiroModelId, systemPrompt, toolResultLimit,
                          BuildAssistant(msgs[i], st))
           [] msgs[i].role = "toolResult" ->
                BuildFrom(msgs, RunEnd(msgs, i) + 1, kiroModelId, systemPrompt,
                          toolResultLimit,
                          BuildToolResults(SubSeq(msgs, i, RunEnd(msgs, i)),
                                           kiroModelId, toolResultLimit, st))

BuiltWith(idx, st) ==
    [history |-> st.history, systemPrepended |-> st.systemPrepended,
     currentMsgStartIdx |-> idx]

buildHistory(messages, kiroModelId, systemPrompt, r) ==
    BuiltWith(CurrentMsgStartIdx(messages),
              BuildFrom(SubSeq(messages, 1, CurrentMsgStartIdx(messages)), 1,
                        kiroModelId, systemPrompt, FloorTimes(TOOL_RESULT_LIMIT, r),
                        [history |-> <<>>, systemPrepended |-> FALSE]))

TruncatedNote ==
    <<"\n", "[", "S", "y", "s", "t", "e", "m", " ", "p", "r", "o", "m", "p", "t", " ",
      "t", "r", "u", "n", "c", "a", "t", "e", "d", " ", "d", "u", "e", " ", "t", "o", " ",
      "l", "e", "n", "g", "t", "h", "]">>

\* lines 98-105
EffectiveSystemPrompt(systemPrompt, r) ==
    IF r < 1000 /\ Len(systemPrompt) > FloorTimes(SystemPromptLimit, r)
    THEN Slice(systemPrompt, 0, FloorTimes(SystemPromptLimit, r)) \o TruncatedNote
    ELSE systemPrompt

\* normalized.slice(currentMsgStartIdx)
CurrentMessages(normalized, idx) ==
    IF normalized = <<>> THEN <<>> ELSE SubSeq(normalized, idx + 1, Len(normalized))

ToolResultsIn(msgs) == SelectSeq(msgs, LAMBDA m : m.role = "toolResult")

\* lines 139-148: the assistant message that opens the current turn goes to
\* the end of the history, after a user turn "Continue" if the history ends
\* with an assistant turn
PushArm(history, arm, kiroModelId) ==
    IF ~ArmGiven(arm) THEN history
    ELSE Append(IF Len(history) > 0 /\ ~IsUser(history[Len(history)])
                THEN Append(history, UserTurn(Text(ContinueText), kiroModelId, <<>>))
                ELSE history,
                ArmTurn(arm))

\* lines 114-172: the history, the content and the tool results of the current turn
CurrentTurn(currentMessages, history, systemPrompt, prepended, kiroModelId, limit) ==
    CASE currentMessages # <<>> /\ currentMessages[1].role = "assistant" ->
           [history |-> PushArm(history, ArmOf(currentMessages[1]), kiroModelId),
            currentToolResults |->
              KiroResults(ToolResultsIn(Tail(currentMessages)), limit),
            currentContent |->
              IF Len(ToolResultsIn(Tail(currentMessages))) > 0
              THEN Text(ToolResultsProvided) ELSE Text(ContinueText)]
      [] currentMessages # <<>> /\ currentMessages[1].role = "toolResult" ->
           [history |-> history,
            currentToolResults |->
              KiroResults(ToolResultsIn(currentMessages), limit),
            currentContent |-> Text(ToolResultsProvided)]
      [] currentMessages # <<>> /\ currentMessages[1].role = "user" ->
           [history |-> history,
            currentToolResults |-> <<>>,
            currentContent |->
              IF systemPrompt # <<>> /\ ~prepended
              THEN WithSystemPrompt(systemPrompt, currentMessages[1].content)
              ELSE currentMessages[1].content]
      [] OTHER ->
           [history |-> history, currentToolResults |-> <<>>,
            currentContent |-> Text(<<>>)]

\* kt.slice(0, Math.max(3, Math.floor(kt.length * reductionFactor)))
LimitTools(kt, r) ==
    IF r < 1000 /\ Len(kt) > Max(3, FloorTimes(Len(kt), r))
    THEN SubSeq(kt, 1, Max(3, FloorTimes(Len(kt), r)))
    ELSE kt

\* lines 178-184: the catalog of a request whose caller gave tools
ToolCatalog(tools, history, r) ==
    LimitTools(IF Len(history) > 0
               THEN addPlaceholderTools(convertToolsToKiro(tools), history)
               ELSE convertToolsToKiro(tools),
               r)

\* context.tools?.length, the tools being <<>> when the context has none
ToolsGiven(tools) == tools # <<>> /\ Len(tools[1]) > 0

\* lines 173-210: the request, cur being the current turn
KiroRequest(cur, tools, kiroModelId, r) ==
    [content |-> sanitizeSurrogates(cur.currentContent),
     modelId |-> kiroModelId,
     hasContext |-> Len(cur.currentToolResults) > 0 \/ ToolsGiven(tools),
     toolResults |-> IF Len(cur.currentToolResults) > 0
                     THEN <<cur.currentToolResults>> ELSE <<>>,
     tools |-> IF ToolsGiven(tools)
               THEN <<ToolCatalog(tools[1], cur.history, r)>> ELSE <<>>,
     history |-> IF Len(cur.history) > 0
                 THEN <<ContinueAfterUser(cur.history)>> ELSE <<>>]

\* lines 106-172 for the normalized messages and the effective system prompt
CurrentOf(normalized, built, systemPrompt, kiroModelId, r) ==
    CurrentTurn(CurrentMessages(normalized, built.currentMsgStartIdx),
                truncateHistory(built.history, FloorTimes(HISTORY_LIMIT, r)),
                systemPrompt, built.systemPrepended, kiroModelId,
                FloorTimes(TOOL_RESULT_LIMIT, r))

RequestWith(normalized, tools, systemPrompt, kiroModelId, r) ==
    KiroRequest(CurrentOf(normalized,
                          buildHistory(normalized, kiroModelId, systemPrompt, r),
                          systemPrompt, kiroModelId, r),
                tools, kiroModelId, r)

\* the request of the attempt made with the reduction factor r, lines 98-210
RequestOf(messages, tools, systemPrompt, kiroModelId, r) ==
    RequestWith(normalizeMessages(messages), tools,
                EffectiveSystemPrompt(systemPrompt, r), kiroModelId, r)

-----------------------------------------------------------------------------
(* One turn of streamKiro, src/src/stream.ts lines 51-357. An action is the  *)
(* code the turn's task runs between two awaits: of fetch, of the error      *)
(* body's text(), of reader.read(). The transport's answers, the caller's    *)
(* abort and the idle timer are the environment.                             *)

maxRetries == 3

\* model.contextWindow: the window of the models of the directory and of the
\* tests, and a small window of a caller's own model
ContextWindow == 200000
SmallWindow == 250

\* the bytes one read returns: MaxRead of them, or all that are left
MaxRead == 9

ModelIds ==
    { <<"c", "l", "a", "u", "d", "e", "-", "s", "o", "n", "n", "e", "t", "-", "4", "-", "5", "-", "1", "m">>,
      <<"g", "p", "t", "-", "4", "-", "1">> }

TooLargePhrases ==
    { <<"C", "O", "N", "T", "E", "N", "T", "_", "L", "E", "N", "G", "T", "H", "_",
        "E", "X", "C", "E", "E", "D", "S", "_", "T", "H", "R", "E", "S", "H", "O", "L", "D">>,
      <<"I", "n", "p", "u", "t", " ", "i", "s", " ", "t", "o", "o", " ", "l", "o", "n", "g">>,
      <<"I", "m", "p", "r", "o", "p", "e", "r", "l", "y", " ", "f", "o", "r", "m", "e", "d">> }

\* errText.includes(one of the too-large phrases)
isTooBig(errText) == \E ph \in TooLargePhrases : IndexOf(errText, ph, 0) # -1

\* the bodies of the error responses
ErrTexts ==
    { <<>>,
      <<"b", "a", "d">>,
      <<"x", " ", "I", "n", "p", "u", "t", " ", "i", "s", " ", "t", "o", "o", " ",
        "l", "o", "n", "g", ".">> }

\* the bodies of the success responses
Bodies ==
    { <<>>,
      ContentObj(<<"H", "i">>) \o ContextUsageObj(10) \o ContentObj(<<"x">>),
      ContentObj(<<"o", "k">>),
      ContentObj(<<"o">>) \o ToolUseObj(<<"f">>, <<"t">>, <<"{", "}">>, TRUE)
        \o ContextUsageObj(5),
      ContentObj(THINKING_START_TAG \o <<"A">> \o THINKING_END_TAG \o <<"\n", "\n", "B">>)
        \o ContextUsageObj(5),
      ToolUseObj(<<"f">>, <<"t">>, <<"{">>, FALSE) }

\* what fetch can resolve with; hasBody is whether response.body is set, text
\* is the body of an error response. The turn notes in settled and errText
\* what its await of response.text() gave
Responses ==
    [ok : {TRUE}, status : {200}, text : {<<>>}, hasBody : {TRUE}, body : Bodies,
     settled : {FALSE}, errText : {<<>>}]
    \cup [ok : {TRUE}, status : {200}, text : {<<>>}, hasBody : {FALSE}, body : {<<>>},
          settled : {FALSE}, errText : {<<>>}]
    \cup [ok : {FALSE}, status : {413, 400, 500}, text : ErrTexts, hasBody : {FALSE},
          body : {<<>>}, settled : {FALSE}, errText : {<<>>}]

\* the size-rejection class, line 235: status 413, or status 400 with a
\* too-large phrase in the text that was read
IsSizeRejection(status, errText) ==
    status = 413 \/ (status = 400 /\ isTooBig(errText))

\* a variant of ShouldRetry that allows one retry more
ShouldRetryOnceMore(status, errText, rc) ==
    IsSizeRejection(status, errText) /\ rc <= maxRetries

\* a variant of ShouldRetry that retries every rejection
ShouldRetryAny(status, errText, rc) == rc < maxRetries

\* the condition of the retry, line 235, with retryCount rc
ShouldRetry(status, errText, rc) == IsSizeRejection(status, errText) /\ rc < maxRetries

\* a variant of Reduce that leaves the factor as it is
ReduceNothing(r) == r

\* reductionFactor *= 0.7, in thousandths: 1000, 700, 490, 343
Reduce(r) == (r * 7) \div 10

\* the request of lines 98-210, as far as the retry shapes it: the reduction
\* factor its history, tool results and system prompt were cut with
BuildRequest(r) == [reductionFactor |-> r]

NewOutput ==
    [content |-> <<>>, usageInput |-> 0, usageOutput |-> 0, totalTokens |-> 0,
     stopReason |-> "stop", errorMessage |-> [kind |-> "none"]]

TurnInit ==
    /\ pc = "start"
    /\ apiKey \in BOOLEAN
    /\ modelId \in ModelIds
    /\ thinkingEnabled \in BOOLEAN
    /\ badToolArgs \in BOOLEAN
    /\ hasSignal \in BOOLEAN
    /\ contextWindow \in (IF apiKey /\ ~thinkingEnabled /\ ~badToolArgs /\ ~hasSignal
                          THEN {ContextWindow, SmallWindow} ELSE {ContextWindow})
    /\ signalAborted \in (IF hasSignal THEN BOOLEAN ELSE {FALSE})
    /\ retryCount = 0
    /\ reductionFactor = 1000
    /\ request = [reductionFactor |-> 0]
    /\ fetchCalls = 0
    /\ sends = 0
    /\ responses = <<>>
    /\ body = <<>>
    /\ buffer = <<>>
    /\ totalContent = <<>>
    /\ textBlockIndex = Null
    /\ toolCalls = <<>>
    /\ currentToolCall = <<>>
    /\ thinkingParser = NewThinkingTagParser
    /\ idleTimer = "none"
    /\ readerCancelled = FALSE
    /\ output = NewOutput
    /\ events = <<>>
    /\ streamEnded = FALSE

\* a variant of Catch that takes the reason from the error it caught
CatchByCause(out, evs, message) ==
    /\ output' = [out EXCEPT
                    !.stopReason = IF message.kind = "AbortError" THEN "aborted" ELSE "error",
                    !.errorMessage = message]
    /\ events' = Append(evs, [type |-> "error",
                              reason |-> IF message.kind = "AbortError"
                                         THEN "aborted" ELSE "error",
                              errorMessage |-> message])
    /\ streamEnded' = TRUE
    /\ pc' = "finished"

\* the catch block, lines 349-354, entered with output out and pushed events evs
Catch(out, evs, message) ==
    LET reason == IF hasSignal /\ signalAborted THEN "aborted" ELSE "error" IN
    /\ output' = [out EXCEPT !.stopReason = reason, !.errorMessage = message]
    /\ events' = Append(evs, [type |-> "error", reason |-> reason,
                              errorMessage |-> message])
    /\ streamEnded' = TRUE
    /\ pc' = "finished"

\* a variant of Attempt whose fetch goes to the network whatever the signal
AttemptUnchecked(rc, r) ==
    /\ retryCount' = rc
    /\ reductionFactor' = r
    /\ IF badToolArgs
       THEN /\ Catch(output, events, [kind |-> "SyntaxError"])
            /\ UNCHANGED <<request, fetchCalls, sends>>
       ELSE /\ request' = BuildRequest(r)
            /\ fetchCalls' = fetchCalls + 1
            /\ sends' = sends + 1
            /\ pc' = "fetch"
            /\ UNCHANGED <<output, events, streamEnded>>

\* one pass of the retry loop up to the await of fetch, lines 97-228, with
\* retry count rc and reduction factor r
Attempt(rc, r) ==
    /\ retryCount' = rc
    /\ reductionFactor' = r
    /\ IF badToolArgs
       THEN /\ Catch(output, events, [kind |-> "SyntaxError"])
            /\ UNCHANGED <<request, fetchCalls, sends>>
       ELSE /\ request' = BuildRequest(r)
            /\ fetchCalls' = fetchCalls + 1
            /\ IF hasSignal /\ signalAborted
               THEN /\ Catch(output, events, [kind |-> "AbortError"])
                    /\ sends' = sends
               ELSE /\ sends' = sends + 1
                    /\ pc' = "fetch"
                    /\ UNCHANGED <<output, events, streamEnded>>

\* the call of streamKiro: lines 56-96, then the first pass of the loop
StreamKiro ==
    /\ pc = "start"
    /\ IF ~apiKey
       THEN /\ Catch(output, events, [kind |-> "credentials"])
            /\ UNCHANGED <<retryCount, reductionFactor, request, fetchCalls, sends>>
       ELSE IF ~resolveKiroModel(modelId).ok
       THEN /\ Catch(output, events, [kind |-> "unknownModel", id |-> modelId])
            /\ UNCHANGED <<retryCount, reductionFactor, request, fetchCalls, sends>>
       ELSE Attempt(0, 1000)
    /\ UNCHANGED <<apiKey, modelId, contextWindow, thinkingEnabled, badToolArgs, hasSignal,
                   signalAborted, responses, body, buffer, totalContent,
                   textBlockIndex, toolCalls, currentToolCall, thinkingParser,
                   idleTimer, readerCancelled, parserVars, libVars, pairVars>>

\* fetch rejects: the transport failed, or the signal was aborted meanwhile
FetchReject ==
    /\ pc = "fetch"
    /\ Catch(output, events,
             IF signalAborted THEN [kind |-> "AbortError"] ELSE [kind |-> "fetchFailed"])
    /\ UNCHANGED <<apiKey, modelId, contextWindow, thinkingEnabled, badToolArgs, hasSignal,
                   signalAborted, retryCount, reductionFactor, request, fetchCalls,
                   sends, responses, body, buffer, totalContent, textBlockIndex,
                   toolCalls, currentToolCall, thinkingParser, idleTimer,
                   readerCancelled, parserVars, libVars, pairVars>>

\* fetch resolves with a response: lines 229-230 and 242-263
FetchRespond(resp) ==
    /\ pc = "fetch"
    /\ ~signalAborted
    /\ responses' = Append(responses, resp)
    /\ IF ~resp.ok
       THEN /\ pc' = "text"
            /\ UNCHANGED <<body, output, events, streamEnded>>
       ELSE LET evs == Append(events, [type |-> "start"]) IN
            IF ~resp.hasBody
            THEN /\ Catch(output, evs, [kind |-> "noBody"])
                 /\ body' = body
            ELSE /\ pc' = "read"
                 /\ body' = resp.body
                 /\ events' = evs
                 /\ UNCHANGED <<output, streamEnded>>
    /\ UNCHANGED <<apiKey, modelId, contextWindow, thinkingEnabled, badToolArgs, hasSignal,
                   signalAborted, retryCount, reductionFactor, request, fetchCalls,
                   sends, buffer, totalContent, textBlockIndex, toolCalls,
                   currentToolCall, thinkingParser, idleTimer, readerCancelled,
                   parserVars, libVars, pairVars>>

\* response.text().catch(() => "") settles with errText: lines 230-241, and on
\* a retry the next pass of the loop up to its fetch
TextSettle(errText) ==
    LET resp == responses[Len(responses)] IN
    /\ pc = "text"
    /\ errText \in (IF signalAborted THEN {<<>>} ELSE {resp.text, <<>>})
    /\ responses' = [responses EXCEPT ![Len(responses)].settled = TRUE,
                                      ![Len(responses)].errText = errText]
    /\ IF ShouldRetry(resp.status, errText, retryCount)
       THEN Attempt(retryCount + 1, Reduce(reductionFactor))
       ELSE /\ Catch(output, events,
                     [kind |-> "api", status |-> resp.status, text |-> errText])
            /\ UNCHANGED <<retryCount, reductionFactor, request, fetchCalls, sends>>
    /\ UNCHANGED <<apiKey, modelId, contextWindow, thinkingEnabled, badToolArgs, hasSignal,
                   signalAborted, body, buffer, totalContent,
                   textBlockIndex, toolCalls, currentToolCall, thinkingParser,
                   idleTimer, readerCancelled, parserVars, libVars, pairVars>>

\* String(v): what v becomes when it is appended to a string
ToJsString(v) ==
    CASE v.t = "str" -> v.s
      [] v.t = "num" -> NumToStr(v.n)
      [] v.t = "lit" -> JsonStringify(v)
      [] v.t = "obj" -> <<"[", "o", "b", "j", "e", "c", "t", " ",
                          "O", "b", "j", "e", "c", "t", "]">>

\* the share of the window cut to a whole number instead of rounded
UsageInputTruncated(pct, window) ==
    IF pct.t = "num" THEN (pct.n * window) \div 100 ELSE 0

\* Math.round((pct / 100) * contextWindow)
UsageInput(pct, window) ==
    IF pct.t = "num" THEN (2 * pct.n * window + 100) \div 200 ELSE 0

\* the locals of the read loop with the parser's fields, the content of the
\* output and the pushed events, as one record
Working ==
    [textBuffer         |-> thinkingParser.textBuffer,
     inThinking         |-> thinkingParser.inThinking,
     thinkingExtracted  |-> thinkingParser.thinkingExtracted,
     thinkingBlockIndex |-> thinkingParser.thinkingBlockIndex,
     textBlockIndex     |-> thinkingParser.textBlockIndex,
     content            |-> output.content,
     events             |-> events,
     localTextBlockIndex |-> textBlockIndex,
     totalContent       |-> totalContent,
     toolCalls          |-> toolCalls,
     currentToolCall    |-> currentToolCall,
     usageInput         |-> output.usageInput,
     streamComplete     |-> FALSE]

\* the text branch without a thinking parser, lines 279-285
AppendText(w, data) ==
    LET w1 == IF w.localTextBlockIndex = Null
              THEN [w EXCEPT !.localTextBlockIndex = Len(w.content),
                             !.content = Append(@, [type |-> "text", text |-> <<>>]),
                             !.events = Append(@, [type |-> "text_start",
                                                   contentIndex |-> Len(w.content)])]
              ELSE w
    IN  [w1 EXCEPT !.content[w1.localTextBlockIndex + 1].text = @ \o data,
                   !.events = Append(@, [type |-> "text_delta",
                                         contentIndex |-> w1.localTextBlockIndex,
                                         delta |-> data])]

\* a variant of HandleToolUse in which a call with another id takes the place
\* of the pending one
HandleToolUseReplacing(w, tc) ==
    LET w1 == IF w.currentToolCall # <<>>
                 /\ w.currentToolCall[1].toolUseId = tc.toolUseId
              THEN [w EXCEPT !.currentToolCall[1].input = @ \o tc.input]
              ELSE [w EXCEPT !.currentToolCall =
                                 <<[toolUseId |-> tc.toolUseId, name |-> tc.name,
                                    input |-> tc.input]>>]
    IN  IF Truthy(tc.stop) /\ w1.currentToolCall # <<>>
        THEN [w1 EXCEPT !.toolCalls = @ \o w1.currentToolCall, !.currentToolCall = <<>>]
        ELSE w1

\* the toolUse branch, lines 288-298
HandleToolUse(w, tc) ==
    LET w1 == IF w.currentToolCall # <<>>
                 /\ w.currentToolCall[1].toolUseId = tc.toolUseId
              THEN [w EXCEPT !.currentToolCall[1].input = @ \o tc.input]
              ELSE [w EXCEPT !.toolCalls = @ \o w.currentToolCall,
                             !.currentToolCall =
                                 <<[toolUseId |-> tc.toolUseId, name |-> tc.name,
                                    input |-> tc.input]>>]
    IN  IF Truthy(tc.stop) /\ w1.currentToolCall # <<>>
        THEN [w1 EXCEPT !.toolCalls = @ \o w1.currentToolCall, !.currentToolCall = <<>>]
        ELSE w1

\* the body of the for loop over the parsed events, lines 270-307
HandleEvent(w, event) ==
    CASE event.type = "contextUsage" ->
            [w EXCEPT !.usageInput =
                          UsageInput(event.data.contextUsagePercentage, contextWindow),
                      !.streamComplete = TRUE]
      [] event.type = "content" ->
            LET w1 == [w EXCEPT !.totalContent = @ \o ToJsString(event.data)] IN
            IF thinkingEnabled THEN processChunk(w1, ToJsString(event.data))
            ELSE AppendText(w1, ToJsString(event.data))
      [] event.type = "toolUse" -> HandleToolUse(w, event.data)
      [] event.type = "toolUseInput" ->
            IF w.currentToolCall # <<>>
            THEN [w EXCEPT !.currentToolCall[1].input = @ \o event.data.input]
            ELSE w
      [] event.type = "toolUseStop" ->
            IF w.currentToolCall # <<>> /\ Truthy(event.data.stop)
            THEN [w EXCEPT !.toolCalls = @ \o w.currentToolCall,
                           !.currentToolCall = <<>>]
            ELSE w

RECURSIVE HandleEvents(_, _, _)
HandleEvents(w, evs, i) ==
    IF i > Len(evs) THEN w ELSE HandleEvents(HandleEvent(w, evs[i]), evs, i + 1)

\* a variant of ArgsOr that keeps what JSON.parse gave, also when it threw
ArgsOrFailure(r) == IF r.ok THEN r.val ELSE Undefined

\* args after the try of lines 325-328, given the result of JSON.parse
ArgsOr(r) == IF r.ok THEN r.val ELSE Obj(<<>>)

\* the arguments of a completed call: JSON.parse(tc.input), {} when it throws
ToolArguments(input) == ArgsOr(JsonParse(input))

\* lines 329-333 for the call tc, whose block is toolCall
PushToolCall(w, tc, toolCall) ==
    [w EXCEPT !.content = Append(@, toolCall),
              !.events = @ \o <<[type |-> "toolcall_start", contentIndex |-> Len(w.content)],
                                [type |-> "toolcall_delta", contentIndex |-> Len(w.content),
                                 delta |-> tc.input],
                                [type |-> "toolcall_end", contentIndex |-> Len(w.content),
                                 toolCall |-> toolCall]>>]

\* the for loop over the completed calls from the i-th on, lines 323-334
RECURSIVE PushToolCalls(_, _)
PushToolCalls(w, i) ==
    IF i > Len(w.toolCalls) THEN w
    ELSE PushToolCalls(
           PushToolCall(w, w.toolCalls[i],
                        [type |-> "toolCall", id |-> w.toolCalls[i].toolUseId,
                         name |-> w.toolCalls[i].name,
                         arguments |-> ToolArguments(w.toolCalls[i].input)]),
           i + 1)

\* a variant of PushPending that gives up the call still open
PushPendingNever(w) == w

\* line 311
PushPending(w) == [w EXCEPT !.toolCalls = @ \o w.currentToolCall]

\* line 314, textBlockIndex = thinkingParser.getTextBlockIndex()
getTextBlockIndex(w) == [w EXCEPT !.localTextBlockIndex = w.textBlockIndex]

\* lines 312-315
FinalizeThinking(w) == IF thinkingEnabled THEN getTextBlockIndex(finalize(w)) ELSE w

\* lines 316-322
PushTextEnd(w) ==
    IF w.localTextBlockIndex # Null
    THEN [w EXCEPT !.events =
            Append(@, [type |-> "text_end", contentIndex |-> w.localTextBlockIndex,
                       content |-> w.content[w.localTextBlockIndex + 1].text])]
    ELSE w

\* a variant of Assembled that pushes the tool calls before the text_end
AssembledCallsFirst(w) == PushTextEnd(PushToolCalls(FinalizeThinking(PushPending(w)), 1))

\* lines 311-334: what ASSEMBLE does to the working record
Assembled(w) == PushToolCalls(PushTextEnd(FinalizeThinking(PushPending(w))), 1)

\* Math.ceil(n / 4)
CeilQuarter(n) == (n + 3) \div 4

\* the variables the working record stands for, after the read loop's body
StoreWorking(w) ==
    /\ thinkingParser' = [textBuffer         |-> w.textBuffer,
                          inThinking         |-> w.inThinking,
                          thinkingExtracted  |-> w.thinkingExtracted,
                          thinkingBlockIndex |-> w.thinkingBlockIndex,
                          textBlockIndex     |-> w.textBlockIndex]
    /\ textBlockIndex' = w.localTextBlockIndex
    /\ totalContent' = w.totalContent
    /\ toolCalls' = w.toolCalls
    /\ currentToolCall' = w.currentToolCall

\* a variant of Complete that stays in the read loop
CompleteWithoutBreak(w, pending) ==
    /\ StoreWorking([w EXCEPT !.currentToolCall = pending])
    /\ output' = [output EXCEPT
                    !.content = w.content,
                    !.usageInput = w.usageInput,
                    !.usageOutput = CeilQuarter(Len(w.totalContent)),
                    !.totalTokens = w.usageInput + CeilQuarter(Len(w.totalContent)),
                    !.stopReason = IF Len(w.toolCalls) > 0 THEN "toolUse" ELSE "stop"]
    /\ events' = Append(w.events,
                        [type |-> "done",
                         reason |-> IF Len(w.toolCalls) > 0 THEN "toolUse" ELSE "stop"])
    /\ streamEnded' = TRUE
    /\ pc' = "read"

\* lines 335-347 for the assembled record w: the usage, the stop reason, the
\* done event and the end of the stream; the slot of the tool call in
\* progress keeps what it held
Complete(w, pending) ==
    /\ StoreWorking([w EXCEPT !.currentToolCall = pending])
    /\ output' = [output EXCEPT
                    !.content = w.content,
                    !.usageInput = w.usageInput,
                    !.usageOutput = CeilQuarter(Len(w.totalContent)),
                    !.totalTokens = w.usageInput + CeilQuarter(Len(w.totalContent)),
                    !.stopReason = IF Len(w.toolCalls) > 0 THEN "toolUse" ELSE "stop"]
    /\ events' = Append(w.events,
                        [type |-> "done",
                         reason |-> IF Len(w.toolCalls) > 0 THEN "toolUse" ELSE "stop"])
    /\ streamEnded' = TRUE
    /\ pc' = "finished"

\* lines 310-347, ASSEMBLE: the timer is cleared if one was set, the message is
\* completed and the done event is pushed
Assemble(w, timer) ==
    /\ idleTimer' = IF timer = "armed" THEN "cleared" ELSE timer
    /\ Complete(Assembled(w), w.currentToolCall)

\* a variant of AfterEvents without the break of line 308
AfterEventsReadOn(w) ==
    IF FALSE
    THEN Assemble(w, "armed")
    ELSE /\ idleTimer' = "armed"
         /\ StoreWorking(w)
         /\ output' = [output EXCEPT !.content = w.content, !.usageInput = w.usageInput]
         /\ events' = w.events
         /\ UNCHANGED <<pc, streamEnded>>

\* lines 270-309 with the chunk's events handled into w
AfterEvents(w) ==
    IF w.streamComplete
    THEN Assemble(w, "armed")
    ELSE /\ idleTimer' = "armed"
         /\ StoreWorking(w)
         /\ output' = [output EXCEPT !.content = w.content, !.usageInput = w.usageInput]
         /\ events' = w.events
         /\ UNCHANGED <<pc, streamEnded>>

\* lines 267-309 with the result of parseKiroEvents(buffer)
AfterParse(parsed) ==
    /\ buffer' = parsed.remaining
    /\ AfterEvents(HandleEvents(Working, parsed.events, 1))

\* reader.read() resolves with the next n bytes: lines 264-309
ReadChunk(n) ==
    /\ pc = "read"
    /\ ~signalAborted
    /\ ~readerCancelled
    /\ n >= 1
    /\ n <= Len(body)
    /\ body' = SubSeq(body, n + 1, Len(body))
    /\ AfterParse(parseKiroEvents(buffer \o SubSeq(body, 1, n)))
    /\ UNCHANGED <<apiKey, modelId, contextWindow, thinkingEnabled, badToolArgs, hasSignal,
                   signalAborted, retryCount, reductionFactor, request, fetchCalls,
                   sends, responses, readerCancelled, parserVars, libVars, pairVars>>

\* reader.read() resolves with done: the connection was closed after the last
\* byte, or the reader was cancelled
ReadDone ==
    /\ pc = "read"
    /\ readerCancelled \/ (~signalAborted /\ body = <<>>)
    /\ Assemble(Working, idleTimer)
    /\ UNCHANGED <<apiKey, modelId, contextWindow, thinkingEnabled, badToolArgs, hasSignal,
                   signalAborted, retryCount, reductionFactor, request, fetchCalls,
                   sends, responses, body, buffer, readerCancelled, parserVars, libVars, pairVars>>

\* reader.read() rejects: the connection failed, or the signal was aborted
ReadReject ==
    /\ pc = "read"
    /\ ~readerCancelled
    /\ Catch(output, events,
             IF signalAborted THEN [kind |-> "AbortError"] ELSE [kind |-> "readFailed"])
    /\ UNCHANGED <<apiKey, modelId, contextWindow, thinkingEnabled, badToolArgs, hasSignal,
                   signalAborted, retryCount, reductionFactor, request, fetchCalls,
                   sends, responses, body, buffer, totalContent, textBlockIndex,
                   toolCalls, currentToolCall, thinkingParser, idleTimer,
                   readerCancelled, parserVars, libVars, pairVars>>

\* the idle timer fires, lines 256-260: reader.cancel(), which closes the
\* stream and resolves a pending read with done. The catch block does not
\* clear the timer, so it can also fire late, after the turn has failed
IdleFire ==
    /\ idleTimer = "armed"
    /\ pc \in {"read", "finished"}
    /\ idleTimer' = IF pc = "read" THEN "fired" ELSE "late"
    /\ readerCancelled' = TRUE
    /\ UNCHANGED <<pc, apiKey, modelId, contextWindow, thinkingEnabled, badToolArgs, hasSignal,
                   signalAborted, retryCount, reductionFactor, request, fetchCalls,
                   sends, responses, body, buffer, totalContent, textBlockIndex,
                   toolCalls, currentToolCall, thinkingParser, output, events,
                   streamEnded, parserVars, libVars, pairVars>>

\* the caller aborts options.signal while the turn awaits the transport
Abort ==
    /\ hasSignal
    /\ ~signalAborted
    /\ pc \in {"fetch", "text", "read"}
    /\ ~readerCancelled
    /\ signalAborted' = TRUE
    /\ UNCHANGED <<pc, apiKey, modelId, contextWindow, thinkingEnabled, badToolArgs, hasSignal,
                   retryCount, reductionFactor, request, fetchCalls, sends,
                   responses, body, buffer, totalContent, textBlockIndex, toolCalls,
                   currentToolCall, thinkingParser, idleTimer, readerCancelled,
                   output, events, streamEnded, parserVars, libVars, pairVars>>

\* one turn only: no second turn waits
PairQuiet ==
    /\ running = 0
    /\ parked = <<>>
    /\ script = <<>>

\* no turn is running: the state of the turn's variables in the other
\* specifications
TurnQuiet ==
    /\ PairQuiet
    /\ pc = "off"
    /\ apiKey = FALSE
    /\ modelId = <<>>
    /\ contextWindow = 0
    /\ thinkingEnabled = FALSE
    /\ badToolArgs = FALSE
    /\ hasSignal = FALSE
    /\ signalAborted = FALSE
    /\ retryCount = 0
    /\ reductionFactor = 1000
    /\ request = [reductionFactor |-> 0]
    /\ fetchCalls = 0
    /\ sends = 0
    /\ responses = <<>>
    /\ body = <<>>
    /\ buffer = <<>>
    /\ totalContent = <<>>
    /\ textBlockIndex = Null
    /\ toolCalls = <<>>
    /\ currentToolCall = <<>>
    /\ thinkingParser = NewThinkingTagParser
    /\ idleTimer = "none"
    /\ readerCancelled = FALSE
    /\ output = NewOutput
    /\ events = <<>>
    /\ streamEnded = FALSE

-----------------------------------------------------------------------------
(* parseKiroEvents fed the bytes of a response chunk by chunk, as the read   *)
(* loop of streamKiro feeds it (stream.ts, lines 266-268). The input is a    *)
(* concatenation of pieces: event objects as the service writes them, other  *)
(* text, and objects cut short.                                              *)

MaxPieces == 2
MaxChunk == 2

\* kind "event": a complete object of one of the five shapes, with the event it
\* stands for; "junk": text that holds no event and ends outside any object;
\* "cut": an object cut short after its anchor; "part": an anchor cut short
Pieces ==
    << [kind |-> "event", text |-> ContentObj(<<"a", "}", "\"", "{", "\\">>),
        event |-> [type |-> "content", data |-> Str(<<"a", "}", "\"", "{", "\\">>)]],
       [kind |-> "event", text |-> ToolUseObj(<<"f">>, <<"t">>, <<"{", "}">>, TRUE),
        event |-> [type |-> "toolUse",
                   data |-> [name |-> Str(<<"f">>), toolUseId |-> Str(<<"t">>),
                             input |-> <<"{", "}">>, stop |-> Lit("true")]]],
       [kind |-> "event", text |-> InputObj(<<"y">>),
        event |-> [type |-> "toolUseInput", data |-> [input |-> <<"y">>]]],
       [kind |-> "event", text |-> StopObj,
        event |-> [type |-> "toolUseStop", data |-> [stop |-> Lit("true")]]],
       [kind |-> "event", text |-> ContextUsageObj(5),
        event |-> [type |-> "contextUsage",
                   data |-> [contextUsagePercentage |-> Num(5)]]],
       [kind |-> "junk", text |-> <<"x">> \o Anchor(kStop) \o <<"t", "}">>,
        event |-> NoEvent],
       [kind |-> "junk", text |-> Anchor(kName) \o Quote(<<"f">>) \o <<"}">>,
        event |-> NoEvent],
       [kind |-> "cut", text |-> Anchor(kInput) \o <<"{", "\"", "a", "\"", ":">>,
        event |-> NoEvent],
       [kind |-> "part", text |-> <<"{", "\"", "c", "o", "n", "t">>,
        event |-> NoEvent] >>

PieceSeqs == UNION {[1..n -> DOMAIN Pieces] : n \in 0..MaxPieces}

\* the bytes of the whole response
PInput == Concat([i \in 1..Len(pPieces) |-> Pieces[pPieces[i]].text])

\* parseKiroEvent was not called
NotClassified == [type |-> "pending"]

ClassifyQuiet ==
    /\ cObject = Obj(<<>>)
    /\ cEvent = NotClassified

\* the functions of the library are not running: the state of their variables
\* in Spec and ParserSpec
\* a new ThinkingTagParser with an empty output and an empty stream
NewThinking ==
    [textBuffer |-> <<>>, inThinking |-> FALSE, thinkingExtracted |-> FALSE,
     thinkingBlockIndex |-> Null, textBlockIndex |-> Null,
     content |-> <<>>, events |-> <<>>]

ThinkQuiet ==
    /\ tShape = "closed"
    /\ tA = <<>>
    /\ tB = <<>>
    /\ tPos = 0
    /\ tCuts = {}
    /\ tParser = NewThinking
    /\ tFinal = FALSE

HistoryQuiet ==
    /\ hHistory = <<>>
    /\ hTools = <<>>
    /\ hLimit = 0
    /\ hCalled = "none"
    /\ hResult = <<>>

NoRequest == [content |-> Text(<<>>), modelId |-> <<>>, hasContext |-> FALSE,
              toolResults |-> <<>>, tools |-> <<>>, history |-> <<>>]

RequestQuiet ==
    /\ qMessages = <<>>
    /\ qTools = <<>>
    /\ qSystemPrompt = <<>>
    /\ qRetryCount = 0
    /\ qFactor = 1000
    /\ qSends = 0
    /\ qRequest = NoRequest
    /\ qArrays = <<>>
    /\ qHistoryArray = 0

LibQuiet ==
    /\ ClassifyQuiet
    /\ ThinkQuiet
    /\ HistoryQuiet
    /\ RequestQuiet

ParserInit ==
    /\ pPieces \in PieceSeqs
    /\ pPos = 0
    /\ pBuffer = <<>>
    /\ pEvents = <<>>
    /\ pCalls = "none"
    /\ TurnQuiet
    /\ LibQuiet

\* one pass of the read loop with a chunk of n bytes: buffer += chunk; parse;
\* buffer = remaining. A chunk is empty only when the whole input is
PFeed(n) ==
    /\ pPos + n <= Len(PInput)
    /\ n > 0 \/ pCalls = "none"
    /\ LET r == parseKiroEvents(pBuffer \o SubSeq(PInput, pPos + 1, pPos + n)) IN
         /\ pBuffer' = r.remaining
         /\ pEvents' = pEvents \o r.events
    /\ pPos' = pPos + n
    /\ pCalls' = IF pCalls = "none" THEN "one" ELSE "several"
    /\ UNCHANGED <<pPieces, turnVars, libVars, pairVars>>

ParserNext == \E n \in (1..MaxChunk) \cup {Len(PInput) - pPos} : PFeed(n)

ParserSpec == ParserInit /\ [][ParserNext]_vars

\* no parse is running: the state of the parser's variables in Spec
ParserQuiet ==
    /\ pPieces = <<>>
    /\ pPos = 0
    /\ pBuffer = <<>>
    /\ pEvents = <<>>
    /\ pCalls = "none"

Init == TurnInit /\ ParserQuiet /\ LibQuiet /\ PairQuiet

Next ==
    \/ StreamKiro
    \/ FetchReject
    \/ \E resp \in Responses : FetchRespond(resp)
    \/ \E errText \in ErrTexts : TextSettle(errText)
    \/ \E n \in {MaxRead, Len(body)} : ReadChunk(n)
    \/ ReadDone
    \/ ReadReject
    \/ IdleFire
    \/ Abort

Spec == Init /\ [][Next]_vars

-----------------------------------------------------------------------------
(* parseKiroEvent applied to the objects JSON.parse can return for the six   *)
(* fields it looks at (event-parser.ts, lines 39-64). A field is absent, or  *)
(* holds a value JavaScript takes for false, or one it takes for true.       *)

\* the object with the given fields; a field of value Undefined is absent
ObjectOf(c, n, t, i, s, u) ==
    Obj(SelectSeq(<< [k |-> kContent, v |-> c], [k |-> kName, v |-> n],
                     [k |-> kToolUseId, v |-> t], [k |-> kInput, v |-> i],
                     [k |-> kStop, v |-> s],
                     [k |-> kContextUsagePercentage, v |-> u] >>,
                  LAMBDA e : e.v # Undefined))

ClassifyObjects ==
    {ObjectOf(c, n, t, i, s, u) :
        c \in {Undefined, Str(<<>>), Str(<<"a">>)},
        n \in {Undefined, Str(<<>>), Str(<<"f">>)},
        t \in {Undefined, Str(<<>>), Str(<<"t">>)},
        i \in {Undefined, Str(<<"y">>), Obj(<<>>)},
        s \in {Undefined, Lit("true"), Lit("false")},
        u \in {Undefined, Num(0), Num(5)}}

ClassifyInit ==
    /\ cObject \in ClassifyObjects
    /\ cEvent = NotClassified
    /\ TurnQuiet
    /\ ParserQuiet
    /\ ThinkQuiet
    /\ HistoryQuiet
    /\ RequestQuiet

\* const event = parseKiroEvent(parsed)
Classify ==
    /\ cEvent = NotClassified
    /\ cEvent' = parseKiroEvent(cObject)
    /\ UNCHANGED <<cObject, turnVars, pairVars, parserVars, thinkVars, historyVars, requestVars>>

ClassifySpec == ClassifyInit /\ [][Classify]_vars

-----------------------------------------------------------------------------
(* One ThinkingTagParser (src/unnamed/part_003, lines 196-327) given a text  *)
(* in chunks, as the content events of a response give it to the parser of a *)
(* turn, and then finalized. The text is <thinking>A</thinking>\n\nB, or     *)
(* <thinking>A of a response that ends inside its thinking, or AB of one     *)
(* without markers, or p<thinking>A</thinking>B<thinking>c</thinking> of one *)
(* that opens a second section after its answer began.                       *)

\* at most this many calls of processChunk
MaxCalls == 3

ThinkingTexts == {<<>>, <<"a">>,
                  <<"a", "b", "c", "d", "e", "f", "g", "h", "i", "j", "k", "l">>}
AnswerTexts == {<<>>, <<"b">>}

Separator == <<"\n", "\n">>

ThinkShapes == {"closed", "open", "plain", "again"}

\* the text before the open marker, and a second section
Lead == IF tShape = "again" THEN <<"p">> ELSE <<>>
Second == THINKING_START_TAG \o <<"c">> \o THINKING_END_TAG

\* the text of a shape with the thinking a and the answer b
ThinkText(shape, a, b) ==
    CASE shape = "closed" ->
           THINKING_START_TAG \o a \o THINKING_END_TAG \o Separator \o b
      [] shape = "open" -> THINKING_START_TAG \o a
      [] shape = "plain" -> a \o b
      [] shape = "again" ->
           <<"p">> \o THINKING_START_TAG \o a \o THINKING_END_TAG \o b \o Second

ThinkInput == ThinkText(tShape, tA, tB)

ThinkInit ==
    /\ tShape \in ThinkShapes
    /\ tA \in ThinkingTexts
    /\ tB \in AnswerTexts
    /\ tPos = 0
    /\ tCuts = {}
    /\ tParser = NewThinking
    /\ tFinal = FALSE
    /\ TurnQuiet
    /\ ParserQuiet
    /\ ClassifyQuiet
    /\ HistoryQuiet
    /\ RequestQuiet

\* parser.processChunk(chunk), the chunk being the next n characters
ThinkProcessChunk(n) ==
    /\ ~tFinal
    /\ Cardinality(tCuts) < MaxCalls
    /\ tPos + n <= Len(ThinkInput)
    /\ tParser' = processChunk(tParser, SubSeq(ThinkInput, tPos + 1, tPos + n))
    /\ tPos' = tPos + n
    /\ tCuts' = tCuts \cup {tPos + n}
    /\ UNCHANGED <<tShape, tA, tB, tFinal, turnVars, pairVars, parserVars, classifyVars, historyVars,
                   requestVars>>

\* parser.finalize(), once the whole text was given
ThinkFinalize ==
    /\ ~tFinal
    /\ tPos = Len(ThinkInput)
    /\ tParser' = finalize(tParser)
    /\ tFinal' = TRUE
    /\ UNCHANGED <<tShape, tA, tB, tPos, tCuts, turnVars, pairVars, parserVars, classifyVars,
                   historyVars, requestVars>>

ThinkNext ==
    \/ \E n \in 1..(Len(ThinkInput) - tPos) : ThinkProcessChunk(n)
    \/ ThinkFinalize

ThinkSpec == ThinkInit /\ [][ThinkNext]_vars

-----------------------------------------------------------------------------
(* The functions of the history management (src/unnamed/part_004) applied to *)
(* entry lists: well-formed ones and malformed ones, with tool results whose *)
(* ids no tool use declares, or declares in another place.                   *)

\* the longest entry list
MaxEntries == 4

\* how many characters the long user turn has beyond its first
LongFill == 200

IdA == <<"a">>
IdB == <<"b">>
TestModelId == <<"M">>

\* the entries the lists are made of, after the helpers of the history tests
\* (src/unnamed/part_000, lines 12-23)
HistoryEntries ==
    << UserTurn(Text(<<"u">>), TestModelId, <<>>),
       UserTurn(Filled(<<"u">>, LongFill), TestModelId, <<>>),
       UserTurn(Text(<<"r">>), TestModelId, <<<<ToolResult(<<"o", "k">>, Success, IdA)>>>>),
       UserTurn(Text(<<"r">>), TestModelId,
                <<<<ToolResult(<<"o", "k">>, Success, IdB),
                    ToolResult(<<"n", "o">>, Success, IdB)>>>>),
       AssistantTurn(Text(<<"o", "k">>), <<>>),
       AssistantTurn(Text(<<"o", "k">>), <<<<ToolUse(<<"f">>, IdA)>>>>),
       AssistantTurn(Text(<<>>), <<<<ToolUse(<<"g">>, IdB)>>>>) >>

EntryLists ==
    UNION {[1..n -> Range(HistoryEntries)] : n \in 0..MaxEntries}

\* the smallest exchange: a user turn and an assistant turn without content
MinimalExchangeSize ==
    HistorySize(<<UserTurn(Text(<<>>), TestModelId, <<>>), AssistantTurn(Text(<<>>), <<>>)>>)

Budgets == {MinimalExchangeSize, MinimalExchangeSize + LongFill,
            MinimalExchangeSize + 2 * LongFill}

CallerSchema == [type |-> "object", properties |-> {"path"}]

Catalogs ==
    { <<>>,
      <<ToolSpec(<<"f">>, <<"d">>, CallerSchema)>>,
      <<ToolSpec(<<"g">>, <<"d">>, CallerSchema), ToolSpec(<<"f">>, <<"d">>, CallerSchema)>> }

HistoryInit ==
    /\ hHistory \in EntryLists
    /\ hTools = <<>>
    /\ hLimit = 0
    /\ hCalled = "none"
    /\ hResult = <<>>
    /\ TurnQuiet
    /\ ParserQuiet
    /\ ClassifyQuiet
    /\ ThinkQuiet
    /\ RequestQuiet

Sanitize ==
    /\ hCalled = "none"
    /\ hCalled' = "sanitizeHistory"
    /\ hResult' = sanitizeHistory(hHistory)
    /\ UNCHANGED <<hHistory, hTools, hLimit, turnVars, pairVars, parserVars, classifyVars,
                   thinkVars, requestVars>>

Inject ==
    /\ hCalled = "none"
    /\ hCalled' = "injectSyntheticToolCalls"
    /\ hResult' = injectSyntheticToolCalls(hHistory)
    /\ UNCHANGED <<hHistory, hTools, hLimit, turnVars, pairVars, parserVars, classifyVars,
                   thinkVars, requestVars>>

Truncate(limit) ==
    /\ hCalled = "none"
    /\ hCalled' = "truncateHistory"
    /\ hLimit' = limit
    /\ hResult' = truncateHistory(hHistory, limit)
    /\ UNCHANGED <<hHistory, hTools, turnVars, pairVars, parserVars, classifyVars, thinkVars,
                   requestVars>>

AddPlaceholders(tools) ==
    /\ hCalled = "none"
    /\ hCalled' = "addPlaceholderTools"
    /\ hTools' = tools
    /\ hResult' = addPlaceholderTools(tools, hHistory)
    /\ UNCHANGED <<hHistory, hLimit, turnVars, pairVars, parserVars, classifyVars, thinkVars,
                   requestVars>>

HistoryNext ==
    \/ Sanitize
    \/ Inject
    \/ \E limit \in Budgets : Truncate(limit)
    \/ \E tools \in Catalogs : AddPlaceholders(tools)

HistorySpec == HistoryInit /\ [][HistoryNext]_vars

-----------------------------------------------------------------------------
(* truncateHistory step by step (src/unnamed/part_004, lines 56-66): the     *)
(* call, each pass of its while loop, and the return. While the loop runs,   *)
(* hResult is the local `sanitized`. The function runs without an await, so  *)
(* a step that can be taken is taken.                                        *)

\* the budgets, one of them smaller than any entry
LoopBudgets == Budgets \cup {0}

\* a variant of the loop's body without the shift of line 60
TruncateStepNoShift(sanitized) == sanitizeHistory(ShiftToUser(sanitized))

\* lines 60-62: the body of the loop
TruncateStep(sanitized) == sanitizeHistory(ShiftToUser(Tail(sanitized)))

\* JSON.stringify(sanitized).length for every list; @@ has TLC work the
\* table out once, also where it evaluates ENABLED
SizeOfList == [h \in EntryLists |-> HistorySize(h)] @@ <<>>

\* line 59: the test of the loop, historySize being the size of `sanitized`
TruncateMore == SizeOfList[hResult] > hLimit /\ Len(hResult) > 2

\* lines 57-58
TruncateEnter(limit) ==
    /\ hCalled = "none"
    /\ hCalled' = "loop"
    /\ hLimit' = limit
    /\ hResult' = sanitizeHistory(hHistory)
    /\ UNCHANGED <<hHistory, hTools, turnVars, pairVars, parserVars, classifyVars, thinkVars,
                   requestVars>>

\* lines 59-63: one pass
TruncateIterate ==
    /\ hCalled = "loop"
    /\ TruncateMore
    /\ hResult' = TruncateStep(hResult)
    /\ UNCHANGED <<hHistory, hTools, hLimit, hCalled, turnVars, pairVars, parserVars,
                   classifyVars, thinkVars, requestVars>>

\* lines 59 and 65: the test fails and the function returns
TruncateReturn ==
    /\ hCalled = "loop"
    /\ ~TruncateMore
    /\ hCalled' = "truncateHistory"
    /\ hResult' = injectSyntheticToolCalls(hResult)
    /\ UNCHANGED <<hHistory, hTools, hLimit, turnVars, pairVars, parserVars, classifyVars,
                   thinkVars, requestVars>>

TruncateNext ==
    \/ \E limit \in LoopBudgets : TruncateEnter(limit)
    \/ TruncateIterate
    \/ TruncateReturn

TruncateSpec == HistoryInit /\ [][TruncateNext]_vars /\ WF_vars(TruncateNext)

-----------------------------------------------------------------------------
(* The requests of one turn. The first attempt builds its request with the    *)
(* reduction factor 1.0; an attempt made after a size rejection builds it     *)
(* again from the same context with the factor reduced, at most maxRetries    *)
(* times (stream.ts lines 96-97 and 235-238).                                 *)

\* how many messages context.messages has at most
MaxMessages == 4

\* how many characters the big user message has beyond its first
BigFill == 450000

ToolF == <<"f">>

ContextMessages ==
    << UserMessage(Text(<<"u">>)),
       UserMessage(Filled(<<"u">>, BigFill)),
       AssistantMessage(<<ThinkingBlock(<<"h">>), TextBlock(<<"t">>)>>, "stop"),
       AssistantMessage(<<ToolCallBlock(ToolF, IdA)>>, "toolUse"),
       AssistantMessage(<<>>, "stop"),
       AssistantMessage(<<TextBlock(<<"Z">>), ToolCallBlock(<<"z">>, IdA)>>, "error"),
       AssistantMessage(<<ThinkingBlock(<<"Y">>), TextBlock(<<"Z">>)>>, "aborted"),
       ToolResultMessage(IdA, <<"o", "k">>, FALSE),
       ToolResultMessage(IdB, <<"n", "o">>, TRUE) >>

MessageLists ==
    UNION {[1..n -> Range(ContextMessages)] : n \in 0..MaxMessages}

ContextTools ==
    { <<>>,
      << <<Tool(ToolF, <<"d">>, CallerSchema)>> >>,
      << <<Tool(<<"p">>, <<"d">>, CallerSchema), Tool(<<"q">>, <<"d">>, CallerSchema),
           Tool(<<"s">>, <<"d">>, CallerSchema)>> >>,
      << <<Tool(<<"p">>, <<"d">>, CallerSchema), Tool(<<"q">>, <<"d">>, CallerSchema),
           Tool(<<"s">>, <<"d">>, CallerSchema), Tool(ToolF, <<"d">>, CallerSchema)>> >> }

SystemPrompts == {<<>>, <<"S">>}


\* The arrays of the request assembly. An array is known by the variable or
\* parameter that names it, the attempt that made it (0 for the caller), the
\* attempts whose objects it holds and the attempts that changed it in place
\* with push or shift.
CallerArrays ==
    << [name |-> "context.messages", made |-> 0, holds |-> {0}, writers |-> {}],
       [name |-> "context.tools", made |-> 0, holds |-> {0}, writers |-> {}] >>

\* the array a name is bound to: the one made last under this name
Bound(arrays, name) ==
    CHOOSE i \in DOMAIN arrays :
       arrays[i].name = name /\ \A j \in DOMAIN arrays : arrays[j].name = name => j <= i

\* a variant of Alloc for arrays declared outside the retry loop: an attempt
\* takes the array an earlier attempt left under the name
AllocHoisted(arrays, name, a, holds) ==
    IF \E i \in DOMAIN arrays : arrays[i].name = name
    THEN [arrays EXCEPT ![Bound(arrays, name)].holds = @ \cup holds]
    ELSE Append(arrays, [name |-> name, made |-> a, holds |-> holds, writers |-> {}])

\* an array literal, or filter, map and slice, which return a new array
Alloc(arrays, name, a, holds) ==
    Append(arrays, [name |-> name, made |-> a, holds |-> holds, writers |-> {}])

\* shift on the array bound to name, when the code gets there
ShiftIf(cond, arrays, name, a) ==
    IF cond THEN [arrays EXCEPT ![Bound(arrays, name)].writers = @ \cup {a}] ELSE arrays

\* push of an object literal on the array bound to name, when the code gets
\* there
PushIf(cond, arrays, name, a) ==
    IF cond THEN [arrays EXCEPT ![Bound(arrays, name)].writers = @ \cup {a},
                                ![Bound(arrays, name)].holds = @ \cup {a}]
    ELSE arrays

\* the arrays after attempt a: lines 106-114 and 140-193 of stream.ts, lines
\* 466-548 of buildHistory, and sanitizeHistory, truncateHistory and
\* injectSyntheticToolCalls of history.ts
AttemptArrays(arrays, a, messages, tools, systemPrompt, r) ==
    LET normalized == normalizeMessages(messages)
        effective == EffectiveSystemPrompt(systemPrompt, r)
        built == buildHistory(normalized, TestModelId, effective, r)
        limit == FloorTimes(HISTORY_LIMIT, r)
        sanitized == sanitizeHistory(built.history)
        shifts == HistorySize(sanitized) > limit /\ Len(sanitized) > 2
        cut == truncateHistory(built.history, limit)
        cur == CurrentOf(normalized, built, effective, TestModelId, r)
        sent == ContinueAfterUser(cur.history)
        \* line 106, filter; line 477, slice; line 466, [] and the pushes
        a1 == Alloc(arrays, "normalized", a, {0})
        a2 == Alloc(a1, "historyMessages", a, {0})
        a3 == PushIf(built.history # <<>>, Alloc(a2, "rawHistory", a, {}), "rawHistory", a)
        \* sanitizeHistory: result = [] and its pushes
        a4 == PushIf(sanitized # <<>>, Alloc(a3, "sanitized", a, {}), "sanitized", a)
        \* the loop of truncateHistory: shift, and sanitizeHistory again
        a5 == IF shifts
              THEN PushIf(TruncateLoop(sanitized, limit) # <<>>,
                          Alloc(ShiftIf(TRUE, a4, "sanitized", a), "sanitized", a, {}),
                          "sanitized", a)
              ELSE a4
        \* injectSyntheticToolCalls: result = [] and its pushes; line 110
        a6 == PushIf(cut # <<>>, Alloc(a5, "history", a, {}), "history", a)
        \* line 114, slice; lines 141-143 and 193, push
        a7 == Alloc(a6, "currentMessages", a, {0})
        a8 == PushIf(Len(sent) > Len(cut), a7, "history", a)
        \* line 178, map; line 179, a new array when names are missing;
        \* line 183, slice
        a9 == IF ~ToolsGiven(tools) THEN a8
              ELSE LET k1 == Alloc(a8, "kt", a, {a})
                       k2 == IF Len(sent) > 0
                                /\ addPlaceholderTools(convertToolsToKiro(tools[1]), cur.history)
                                      # convertToolsToKiro(tools[1])
                             THEN Alloc(k1, "kt", a, {a}) ELSE k1
                   IN  IF r < 1000 THEN Alloc(k2, "kt", a, {a}) ELSE k2
    IN  a9

\* conversationState.history of the request: the array bound to history, if
\* it is not empty
HistoryArrayOf(arrays, req) ==
    IF req.history = <<>> THEN 0 ELSE Bound(arrays, "history")

RequestInit ==
    /\ qMessages \in MessageLists
    /\ qTools \in ContextTools
    /\ qSystemPrompt \in SystemPrompts
    /\ qRetryCount = 0
    /\ qFactor = 1000
    /\ qSends = 0
    /\ qRequest = NoRequest
    /\ qArrays = CallerArrays
    /\ qHistoryArray = 0
    /\ TurnQuiet
    /\ ParserQuiet
    /\ ClassifyQuiet
    /\ ThinkQuiet
    /\ HistoryQuiet

\* the first pass of the loop of line 97, up to the fetch of line 213
FirstAttempt ==
    /\ qSends = 0
    /\ qRequest' = RequestOf(qMessages, qTools, qSystemPrompt, TestModelId, qFactor)
    /\ qArrays' = AttemptArrays(qArrays, 1, qMessages, qTools, qSystemPrompt, qFactor)
    /\ qHistoryArray' = HistoryArrayOf(qArrays', qRequest')
    /\ qSends' = 1
    /\ UNCHANGED <<qMessages, qTools, qSystemPrompt, qRetryCount, qFactor,
                   turnVars, pairVars, parserVars, classifyVars, thinkVars, historyVars>>

\* the request was rejected for its size: lines 235-238, and the next pass
RetryAttempt ==
    /\ qSends > 0
    /\ qRetryCount < maxRetries
    /\ qRetryCount' = qRetryCount + 1
    /\ qFactor' = Reduce(qFactor)
    /\ qRequest' = RequestOf(qMessages, qTools, qSystemPrompt, TestModelId,
                             Reduce(qFactor))
    /\ qArrays' = AttemptArrays(qArrays, qSends + 1, qMessages, qTools, qSystemPrompt,
                                Reduce(qFactor))
    /\ qHistoryArray' = HistoryArrayOf(qArrays', qRequest')
    /\ qSends' = qSends + 1
    /\ UNCHANGED <<qMessages, qTools, qSystemPrompt,
                   turnVars, pairVars, parserVars, classifyVars, thinkVars, historyVars>>

RequestNext == FirstAttempt \/ RetryAttempt

RequestSpec == RequestInit /\ [][RequestNext]_vars

-----------------------------------------------------------------------------
(* Two turns of streamKiro at once. Every local of streamKiro is declared    *)
(* inside the async function of line 55 (output, retryCount, reductionFactor *)
(* at lines 56-96; buffer, totalContent, thinkingParser, textBlockIndex,     *)
(* toolCalls, currentToolCall, idleTimer at lines 243-253), and the modules  *)
(* it imports keep no variable of their own: each call has its own copy of   *)
(* all of them. One task runs at a time, from one await to the next; at an   *)
(* await the other task can be resumed. The transport answers each turn by   *)
(* its script: so many size rejections, then the body, in reads of MaxRead   *)
(* bytes.                                                                    *)

\* the locals of the running turn
TurnState ==
    [pc |-> pc, apiKey |-> apiKey, modelId |-> modelId, contextWindow |-> contextWindow,
     thinkingEnabled |-> thinkingEnabled, badToolArgs |-> badToolArgs,
     hasSignal |-> hasSignal, signalAborted |-> signalAborted,
     retryCount |-> retryCount, reductionFactor |-> reductionFactor,
     request |-> request, fetchCalls |-> fetchCalls, sends |-> sends,
     responses |-> responses, body |-> body, buffer |-> buffer,
     totalContent |-> totalContent, textBlockIndex |-> textBlockIndex,
     toolCalls |-> toolCalls, currentToolCall |-> currentToolCall,
     thinkingParser |-> thinkingParser, idleTimer |-> idleTimer,
     readerCancelled |-> readerCancelled, output |-> output, events |-> events,
     streamEnded |-> streamEnded]

\* the task of the turn with the locals s goes on: all but its parser buffer
ResumeButBuffer(s) ==
    /\ pc' = s.pc
    /\ apiKey' = s.apiKey
    /\ modelId' = s.modelId
    /\ contextWindow' = s.contextWindow
    /\ thinkingEnabled' = s.thinkingEnabled
    /\ badToolArgs' = s.badToolArgs
    /\ hasSignal' = s.hasSignal
    /\ signalAborted' = s.signalAborted
    /\ retryCount' = s.retryCount
    /\ reductionFactor' = s.reductionFactor
    /\ request' = s.request
    /\ fetchCalls' = s.fetchCalls
    /\ sends' = s.sends
    /\ responses' = s.responses
    /\ body' = s.body
    /\ totalContent' = s.totalContent
    /\ textBlockIndex' = s.textBlockIndex
    /\ toolCalls' = s.toolCalls
    /\ currentToolCall' = s.currentToolCall
    /\ thinkingParser' = s.thinkingParser
    /\ idleTimer' = s.idleTimer
    /\ readerCancelled' = s.readerCancelled
    /\ output' = s.output
    /\ events' = s.events
    /\ streamEnded' = s.streamEnded

\* a variant of Switch for a buffer declared outside streamKiro: one buffer
\* for both turns
SwitchSharedBuffer ==
    /\ running \in {1, 2}
    /\ running' = 3 - running
    /\ parked' = TurnState
    /\ ResumeButBuffer(parked)
    /\ buffer' = buffer
    /\ UNCHANGED <<script, parserVars, libVars>>

\* the running task is suspended at its await and the other one goes on
\* with its own locals
Switch ==
    /\ running \in {1, 2}
    /\ running' = 3 - running
    /\ parked' = TurnState
    /\ ResumeButBuffer(parked)
    /\ buffer' = parked.buffer
    /\ UNCHANGED <<script, parserVars, libVars>>

\* how often the transport rejects a turn's request for its size before it
\* accepts it: never, once, or more often than the turn retries
Rejections == {0, 1, maxRetries + 1}
Scripts == [rejections : Rejections, body : Bodies]

SizeRejection ==
    [ok |-> FALSE, status |-> 413,
     text |-> <<"x", " ", "I", "n", "p", "u", "t", " ", "i", "s", " ", "t", "o", "o",
                " ", "l", "o", "n", "g", ".">>,
     hasBody |-> FALSE, body |-> <<>>, settled |-> FALSE, errText |-> <<>>]
Accepted(b) ==
    [ok |-> TRUE, status |-> 200, text |-> <<>>, hasBody |-> TRUE, body |-> b,
     settled |-> FALSE, errText |-> <<>>]

\* what the script of the running turn answers to its next request
ScriptedResponse ==
    IF Len(responses) < script[running].rejections
    THEN SizeRejection ELSE Accepted(script[running].body)

PairInit ==
    /\ TurnInit
    /\ apiKey
    /\ resolveKiroModel(modelId).ok
    /\ contextWindow = ContextWindow
    /\ ~badToolArgs
    /\ ~hasSignal
    /\ running = 1
    /\ \E t \in BOOLEAN : parked = [TurnState EXCEPT !.thinkingEnabled = t]
    /\ script \in [1..2 -> Scripts]
    /\ ParserQuiet
    /\ LibQuiet

PairStart == running \in {1, 2} /\ StreamKiro
PairFetch == running \in {1, 2} /\ FetchRespond(ScriptedResponse)
PairText == running \in {1, 2} /\ pc = "text" /\ TextSettle(responses[Len(responses)].text)
PairRead ==
    /\ running \in {1, 2}
    /\ body # <<>>
    /\ ReadChunk(IF Len(body) < MaxRead THEN Len(body) ELSE MaxRead)
PairClose == running \in {1, 2} /\ body = <<>> /\ ReadDone

PairNext ==
    \/ PairStart
    \/ PairFetch
    \/ PairText
    \/ PairRead
    \/ PairClose
    \/ Switch

PairSpec == PairInit /\ [][PairNext]_vars

-----------------------------------------------------------------------------
(* The properties of the turn, checked under Spec.                           *)

IsTerminal(e) == e.type \in {"done", "error"}
Terminals == {i \in DOMAIN events : IsTerminal(events[i])}
LastEvent == events[Len(events)]
LastResponse == responses[Len(responses)]
Finished == pc = "finished"
Cancelled == hasSignal /\ signalAborted

\* whether the turn saw response k as a size rejection
SizeRejected(k) ==
    /\ ~responses[k].ok
    /\ responses[k].settled
    /\ IsSizeRejection(responses[k].status, responses[k].errText)

C1_TerminalIsLast ==
    /\ Cardinality(Terminals) <= 1
    /\ Terminals # {} => Terminals = {Len(events)}
    /\ Finished <=> Terminals # {}
    /\ streamEnded <=> Terminals # {}

\* C1: in every turn, whatever the credential, the model id, the responses, the
\* chunking, the read failures and the cancellation, the pushed events hold at
\* most one terminal event (done or error), a turn has ended exactly when they
\* hold one, the terminal event is the last event, and no step pushes or
\* changes an event once it is there.
C1_ExactlyOneTerminal ==
    /\ []C1_TerminalIsLast
    /\ [][Terminals # {} => events' = events]_vars

\* a turn that was size-rejected once, then read a body of several events to
\* its done event
C1_Witness ==
    /\ Finished
    /\ Len(responses) = 2
    /\ LastEvent.type = "done"
    /\ Len(events) >= 5

\* C2: no turn makes more than 4 sends (maxRetries + 1); and a turn that is
\* not cancelled and whose every send is answered by a size rejection (413, or
\* 400 with a too-large phrase in the text read) ends after exactly 4 sends
\* with one error event, of reason "error", and no start event.
C2_SizeRejectionsExhaustRetries ==
    /\ sends <= maxRetries + 1
    /\ fetchCalls <= maxRetries + 1
    /\ (/\ Finished
        /\ ~Cancelled
        /\ sends >= 1
        /\ Len(responses) = sends
        /\ \A k \in DOMAIN responses : SizeRejected(k))
       => /\ sends = maxRetries + 1
          /\ Len(events) = 1
          /\ LastEvent.type = "error"
          /\ LastEvent.reason = "error"
          /\ output.stopReason = "error"

\* four size rejections of both kinds, and the turn has ended
C2_Witness ==
    /\ Finished
    /\ ~Cancelled
    /\ sends = 4
    /\ Len(responses) = 4
    /\ \A k \in DOMAIN responses : SizeRejected(k)
    /\ responses[1].status = 413
    /\ responses[4].status = 400

\* C3: once the turn has read a non-success response that is not a size
\* rejection (500, or 400 without a too-large phrase), that response is the
\* last one: no send or fetch follows it, and the turn has ended with an error
\* event whose message carries the response's status and the text read from
\* its body.
C3_OtherRejectionsNotRetried ==
    \A k \in DOMAIN responses :
        (~responses[k].ok /\ responses[k].settled /\ ~SizeRejected(k))
        => /\ k = Len(responses)
           /\ sends = k
           /\ fetchCalls = k
           /\ Finished
           /\ LastEvent.type = "error"
           /\ LastEvent.errorMessage = [kind |-> "api", status |-> responses[k].status,
                                        text |-> responses[k].errText]
           /\ output.errorMessage = LastEvent.errorMessage

\* a size rejection with retries left, then a 400 whose text has no too-large
\* phrase
C3_Witness ==
    /\ Finished
    /\ Len(responses) = 2
    /\ SizeRejected(1)
    /\ responses[2].status = 400
    /\ responses[2].errText = <<"b", "a", "d">>
    /\ sends = 2
    /\ LastEvent.type = "error"

\* the step in which the turn reads the text of a size rejection while
\* retries are left
C4_Retries ==
    /\ pc = "text"
    /\ ~LastResponse.settled
    /\ responses'[Len(responses)].settled
    /\ IsSizeRejection(LastResponse.status, responses'[Len(responses)].errText)
    /\ retryCount < maxRetries

C4_RetryStep ==
    C4_Retries
    => /\ reductionFactor' * 10 = reductionFactor * 7
       /\ retryCount' = retryCount + 1
       /\ request' = BuildRequest(reductionFactor')
       /\ fetchCalls' = fetchCalls + 1
       /\ IF Cancelled THEN sends' = sends ELSE sends' = sends + 1 /\ pc' = "fetch"

C4_FirstSuccess ==
    \A k \in DOMAIN responses :
        responses[k].ok
        => /\ k = Len(responses)
           /\ k <= maxRetries + 1
           /\ \A j \in 1..(k - 1) : SizeRejected(j)
           /\ sends = k
           /\ fetchCalls = k
           /\ reductionFactor = request.reductionFactor
           /\ (/\ Finished
               /\ responses[k].hasBody
               /\ ~Cancelled
               /\ output.errorMessage.kind # "readFailed")
              => /\ LastEvent.type = "done"
                 /\ LastEvent.reason \in {"stop", "toolUse"}

C5_AbortedIffSignalSet ==
    \A i \in DOMAIN events :
        events[i].type = "error"
        => /\ events[i].reason \in {"aborted", "error"}
           /\ events[i].reason = "aborted" <=> Cancelled
           /\ output.stopReason = events[i].reason

\* the signal was set before the call and no credential was given: the
\* failure is the missing credential, the reason is "aborted"
C5_Witness ==
    /\ Finished
    /\ ~apiKey
    /\ LastEvent.type = "error"
    /\ LastEvent.errorMessage.kind = "credentials"
    /\ LastEvent.reason = "aborted"

\* C5, as stated: an error event has reason "aborted" if and only if the
\* cancellation signal caused the termination, that is, the failure is the
\* abort of fetch or of a read; every other failure has reason "error".
C5_AbortedIffSignalCaused ==
    \A i \in DOMAIN events :
        events[i].type = "error"
        => (events[i].reason = "aborted" <=> events[i].errorMessage.kind = "AbortError")

\* C6, as stated: a turn whose read was cancelled by the idle timer ends with
\* an error event of reason "aborted", and never with a done event.
C6_IdleTimeoutAborts ==
    (Finished /\ idleTimer = "fired")
    => /\ LastEvent.type = "error"
       /\ LastEvent.reason = "aborted"

C7_AbortedFetchStep ==
    (fetchCalls' = fetchCalls + 1 /\ Cancelled)
    => /\ sends' = sends
       /\ Len(responses') = Len(responses)
       /\ pc' = "finished"
       /\ events' = Append(events, [type |-> "error", reason |-> "aborted",
                                    errorMessage |-> [kind |-> "AbortError"]])

C7_NoSendWhenCancelled ==
    /\ fetchCalls - sends \in {0, 1}
    /\ fetchCalls > sends
       => /\ Finished
          /\ Cancelled
          /\ LastEvent.type = "error"
          /\ LastEvent.reason = "aborted"
          /\ Len(responses) = sends

\* C7: when the signal is already set as the turn calls fetch, that call
\* makes no network attempt (sends stays; on the first pass it stays 0), no
\* response is read, and the turn ends at once with an error event of reason
\* "aborted".
C7_SignalSetAtSend == [][C7_AbortedFetchStep]_vars /\ []C7_NoSendWhenCancelled

\* a turn with a credential and a known model whose signal was set before the
\* call
C7_Witness ==
    /\ Finished
    /\ apiKey
    /\ fetchCalls = 1
    /\ sends = 0
    /\ LastEvent.reason = "aborted"
    /\ LastEvent.errorMessage.kind = "AbortError"

\* whether the directory has the id with its digit-dash-digit runs dotted
HasTransportId(id) == DashesToDots(id, 1) \in KIRO_MODEL_IDS

\* C8: with no credential, or with a model id that has no transport id, the
\* turn never calls fetch, sends nothing, never retries, pushes no start
\* event, and its events are, once it has ended, exactly one error event.
C8_ConfigurationErrors ==
    (~apiKey \/ ~HasTransportId(modelId))
    => /\ sends = 0
       /\ fetchCalls = 0
       /\ retryCount = 0
       /\ responses = <<>>
       /\ \A i \in DOMAIN events : events[i].type # "start"
       /\ IF Finished
          THEN Len(events) = 1 /\ events[1].type = "error"
          ELSE events = <<>>

\* a turn with a credential whose model id is not in the directory
C8_Witness ==
    /\ Finished
    /\ apiKey
    /\ ~HasTransportId(modelId)
    /\ Len(events) = 1
    /\ LastEvent.errorMessage.kind = "unknownModel"

-----------------------------------------------------------------------------
(* The properties of parseKiroEvents, checked under ParserSpec.              *)

\* the events the pieces stand for, in order
PieceEvents == [i \in 1..Len(pPieces) |-> Pieces[pPieces[i]].event]
AllOfKind(ps, kinds) == \A i \in DOMAIN ps : Pieces[ps[i]].kind \in kinds
\* the input was parsed in one call
OneCall == pPos = Len(PInput) /\ pCalls = "one"

\* C9: for a buffer that is N >= 0 complete event objects of the five shapes
\* with nothing between them, one call of parseKiroEvents returns exactly
\* those N events, in the order of the buffer, and an empty remainder.
C9_CompleteObjects ==
    (AllOfKind(pPieces, {"event"}) /\ OneCall)
    => /\ Len(pEvents) = Len(pPieces)
       /\ pEvents = PieceEvents
       /\ pBuffer = <<>>

\* two objects, the first of them with braces, quotes and a backslash in
\* its string, parsed in one call
C9_Witness ==
    /\ OneCall
    /\ Len(pPieces) = 2
    /\ pPieces[1] = 1
    /\ Pieces[pPieces[2]].kind = "event"
    /\ Len(pEvents) = 2

\* the bytes fed so far
Fed == SubSeq(PInput, 1, pPos)

\* C10: however the buffer is cut into chunks, the events collected over the
\* calls and the remainder after the last call are those of one call on the
\* bytes fed so far; and when the buffer is complete objects, text without an
\* event or a cut anchor, and then an object cut short, the remainder after
\* the whole buffer is the tail that starts at that object's anchor.
C10_ChunkIndependence ==
    /\ LET r == parseKiroEvents(Fed) IN pEvents = r.events /\ pBuffer = r.remaining
    /\ (/\ pPos = Len(PInput)
        /\ Len(pPieces) >= 1
        /\ Pieces[pPieces[Len(pPieces)]].kind = "cut"
        /\ AllOfKind(SubSeq(pPieces, 1, Len(pPieces) - 1), {"event", "junk", "part"}))
       => pBuffer = Pieces[pPieces[Len(pPieces)]].text

\* a complete object and an object cut short, fed in several chunks
C10_Witness ==
    /\ pPos = Len(PInput)
    /\ Len(pPieces) = 2
    /\ Pieces[pPieces[1]].kind = "event"
    /\ Pieces[pPieces[2]].kind = "cut"
    /\ pCalls = "several"
    /\ Len(pEvents) = 1
    /\ pBuffer = Pieces[pPieces[2]].text

-----------------------------------------------------------------------------
(* The properties of parseKiroEvent, checked under ClassifySpec.             *)

Classified == cEvent # NotClassified
\* the object has the field
Has(key) == Get(cObject, key) # Undefined
\* the object has the field, with a value JavaScript takes for true
Holds(key) == Truthy(Get(cObject, key))

\* the kind of event the precedence gives when a field counts as soon as it
\* is present
KindByPresence ==
    IF Has(kContent) THEN "content"
    ELSE IF Has(kName) /\ Has(kToolUseId) THEN "toolUse"
    ELSE IF Has(kInput) /\ ~Has(kName) THEN "toolUseInput"
    ELSE IF Has(kStop) /\ ~Has(kContextUsagePercentage) THEN "toolUseStop"
    ELSE IF Has(kContextUsagePercentage) THEN "contextUsage"
    ELSE "null"

\* C11 as stated: the precedence decided on the presence of the fields. It
\* fails for an object whose name or toolUseId is the empty string.
C11_PrecedenceByPresence == Classified => cEvent.type = KindByPresence

\* the object is a tool-use-begin: name and toolUseId present and not empty
IsBegin == Holds(kName) /\ Holds(kToolUseId)
\* the object is an input continuation: input present, name absent or empty
IsContinuation == Has(kInput) /\ ~Holds(kName)

\* C11 (amended): parseKiroEvent classifies an object by one fixed precedence.
\* A content field, whatever its value, gives a content event with that value;
\* else a name and a toolUseId that are both present and not empty give a
\* tool-use-begin with them; else an input field with the name absent or empty
\* gives an input continuation; else a stop field without a
\* contextUsagePercentage field gives a tool-use-stop; else a
\* contextUsagePercentage field gives a context-usage event, also when the
\* object has a stop field; an object matching none gives no event. The result
\* is one event or none.
C11_FixedPrecedence ==
    Classified =>
      /\ Len(EventOrNone(cEvent)) <= 1
      /\ Has(kContent)
           => /\ cEvent.type = "content"
              /\ cEvent.data = Get(cObject, kContent)
      /\ ~Has(kContent) /\ IsBegin
           => /\ cEvent.type = "toolUse"
              /\ cEvent.data.name = Get(cObject, kName)
              /\ cEvent.data.toolUseId = Get(cObject, kToolUseId)
              /\ cEvent.data.stop = Get(cObject, kStop)
      /\ ~Has(kContent) /\ ~IsBegin /\ IsContinuation
           => cEvent.type = "toolUseInput"
      /\ ~Has(kContent) /\ ~IsBegin /\ ~IsContinuation
           => /\ Has(kStop) /\ ~Has(kContextUsagePercentage)
                 => /\ cEvent.type = "toolUseStop"
                    /\ cEvent.data.stop = Get(cObject, kStop)
              /\ Has(kContextUsagePercentage)
                 => /\ cEvent.type = "contextUsage"
                    /\ cEvent.data.contextUsagePercentage
                         = Get(cObject, kContextUsagePercentage)
              /\ ~Has(kStop) /\ ~Has(kContextUsagePercentage)
                 => cEvent = NoEvent

\* an object with both stop and contextUsagePercentage was classified
C11_Witness ==
    /\ Classified
    /\ Has(kStop)
    /\ Has(kContextUsagePercentage)
    /\ cEvent.type = "contextUsage"

-----------------------------------------------------------------------------
(* The properties of the ThinkingTagParser, checked under ThinkSpec.         *)

\* the deltas of one kind pushed to the parser's stream, concatenated
DeltasOf(type) ==
    LET ds == SelectSeq(tParser.events, LAMBDA e : e.type = type)
    IN  Concat([i \in 1..Len(ds) |-> ds[i].delta])

\* the offsets after the close marker and inside the separator
SeparatorCuts ==
    { Len(THINKING_START_TAG \o tA \o THINKING_END_TAG) + k : k \in 0..1 }

\* C12: for the text <thinking>A</thinking>\n\nB given to one parser as one
\* chunk or split at any offsets, and then finalized, the thinking deltas
\* concatenate to A and the answer deltas to B.
C12_SplitIndependent ==
    (tFinal /\ tShape = "closed") =>
              /\ DeltasOf("thinking_delta") = tA
              /\ DeltasOf("text_delta") = tB

\* what the parser does: the thinking deltas concatenate to A; the answer
\* deltas concatenate to B unless a chunk ended right after the close marker
\* or between the two line feeds, and then to the separator followed by B
C12_SeparatorKeptWhenCut ==
    (tFinal /\ tShape = "closed") =>
              /\ DeltasOf("thinking_delta") = tA
              /\ DeltasOf("text_delta")
                    = IF tCuts \cap SeparatorCuts = {} THEN tB
                      ELSE Separator \o tB

\* the parser was given <thinking>a</thinking> and then \n\nb, was finalized,
\* and the answer deltas hold the separator
C12_Witness ==
    /\ tFinal
    /\ tShape = "closed"
    /\ tA = <<"a">>
    /\ tB = <<"b">>
    /\ tCuts = {Len(THINKING_START_TAG \o tA \o THINKING_END_TAG), Len(ThinkInput)}
    /\ DeltasOf("text_delta") = Separator \o tB

-----------------------------------------------------------------------------
(* The properties of the history functions, checked under HistorySpec.       *)

\* the entries of the list, each with its place in the list
Placed(history) ==
    [i \in 1..Len(history) |->
       [userInputMessage |-> history[i].userInputMessage,
        assistantResponseMessage |-> history[i].assistantResponseMessage,
        place |-> i]]

\* the places of the entries of hHistory that sanitizeHistory retains
Retained == {m.place : m \in Range(sanitizeHistory(Placed(hHistory)))}

UseIds(m) == {tu.toolUseId : tu \in Range(ToolUsesOf(m))}
ResultIds(m) == {tr.toolUseId : tr \in Range(ToolResultsOf(m))}

\* entry i declares tool calls and entry i + 1 carries tool results
Paired(i) ==
    /\ i >= 1
    /\ i < Len(hHistory)
    /\ HasToolUses(hHistory[i])
    /\ HasToolResults(hHistory[i + 1])

\* entry i declares tool calls and entry i + 1 carries the results for them,
\* and for no other call
Matched(i) ==
    /\ Paired(i)
    /\ UseIds(hHistory[i]) = ResultIds(hHistory[i + 1])

StartsWithPlainUser(history) ==
    history # <<>> => IsUser(history[1]) /\ ~HasToolResults(history[1])

\* kept, the retained entries with their places, are the entries of hResult,
\* taken from hHistory in its order
InOrder(kept) ==
    /\ Len(kept) = Len(hResult)
    /\ \A k \in 1..Len(kept) : hResult[k] = hHistory[kept[k].place]
    /\ \A k \in 1..(Len(kept) - 1) : kept[k].place < kept[k + 1].place

HasSynthetic(history) ==
    \E k \in 1..Len(history) :
       \E tu \in Range(ToolUsesOf(history[k])) : tu.name = UNKNOWN_TOOL

\* C14: for every entry list and every byte budget that is at least the size
\* of a minimal two-entry exchange, the list truncateHistory returns has a
\* serialized size within the budget and is returned unchanged by
\* sanitizeHistory.
C14_WithinBudgetAndSanitized ==
    hCalled = "truncateHistory" /\ hLimit >= MinimalExchangeSize =>
      /\ HistorySize(hResult) <= hLimit
      /\ sanitizeHistory(hResult) = hResult

\* what truncateHistory does give: a list without a synthesized turn is
\* within the budget unless it is down to two entries or fewer, and
\* sanitizeHistory returns it unchanged; a list with a synthesized turn is
\* never returned unchanged by sanitizeHistory
C14_WithinBudgetUnlessTwoLeft ==
    hCalled = "truncateHistory" =>
      IF HasSynthetic(hResult)
      THEN sanitizeHistory(hResult) # hResult
      ELSE /\ HistorySize(hResult) <= hLimit \/ Len(hResult) <= 2
           /\ sanitizeHistory(hResult) = hResult

\* truncateHistory dropped the oldest entries of a list and what it returned
\* is within the budget
C14_Witness ==
    /\ hCalled = "truncateHistory"
    /\ HistorySize(sanitizeHistory(hHistory)) > hLimit
    /\ hResult # <<>>
    /\ HistorySize(hResult) <= hLimit

\* the turn declares a placeholder call
IsSynthetic(m) == \E tu \in Range(ToolUsesOf(m)) : tu.name = UNKNOWN_TOOL

\* the ids the synthesized turns before place k of hResult declare
SynthesizedBefore(k) ==
    UNION {UseIds(hResult[j]) : j \in {j \in 1..(k - 1) : IsSynthetic(hResult[j])}}

\* the ids declared when injectSyntheticToolCalls comes to place k of hResult
DeclaredAt(k) == DeclaredIds(hHistory, 1) \cup SynthesizedBefore(k)

\* the turn at place k of hResult is the synthesized turn for the turn after it
SynthesizedFor(k) ==
    /\ k < Len(hResult)
    /\ HasToolResults(hResult[k + 1])
    /\ hResult[k].assistantResponseMessage[1].content = ToolCallsWereMade
    /\ ToolUsesOf(hResult[k]) # <<>>
    /\ ToolUsesOf(hResult[k])
         = [j \in 1..Len(Orphaned(ToolResultsOf(hResult[k + 1]), DeclaredAt(k))) |->
              ToolUse(UNKNOWN_TOOL,
                      Orphaned(ToolResultsOf(hResult[k + 1]), DeclaredAt(k))[j].toolUseId)]

-----------------------------------------------------------------------------
(* The properties of the requests, checked under RequestSpec.                 *)

RequestSent == qSends > 0

\* conversationState.history ?? []
RequestHistory == IF qRequest.history = <<>> THEN <<>> ELSE qRequest.history[1]

\* conversationState.currentMessage, as a turn
RequestCurrent == UserTurn(qRequest.content, qRequest.modelId, qRequest.toolResults)

\* the history of the request followed by its current message
RequestTurns == Append(RequestHistory, RequestCurrent)

Alternates(history) ==
    \A k \in 1..Len(history) :
       IF k % 2 = 1 THEN IsUser(history[k]) /\ ~IsAssistant(history[k])
       ELSE IsAssistant(history[k]) /\ ~IsUser(history[k])

\* C15: in every request sent, whatever the messages and the reduction
\* factor, the history strictly alternates user and assistant turns and
\* begins with a user turn.
C15_HistoryAlternates == RequestSent => Alternates(RequestHistory)

\* C15: a non-empty history of a request never ends with a user turn (lines
\* 193-194), which is all the current-turn assembly sees to.
C15_HistoryEndsWithAssistant ==
    RequestSent /\ RequestHistory # <<>> => ~LastIsUser(RequestHistory)

\* the messages user, assistant with a tool call, user, assistant were sent as
\* the history user, user, assistant
C15_Witness ==
    /\ RequestSent
    /\ qMessages = <<ContextMessages[1], ContextMessages[4], ContextMessages[1],
                     ContextMessages[3]>>
    /\ Len(RequestHistory) = 3
    /\ IsUser(RequestHistory[1])
    /\ IsUser(RequestHistory[2])
    /\ IsAssistant(RequestHistory[3])

\* C16: in every request sent, every assistant turn of the history with tool
\* calls is immediately followed by a user turn, the current message after
\* the last entry, carrying tool results for the ids of the calls, and no user
\* turn, of the history or current, carries tool results unless the turn
\* immediately before it is an assistant turn with tool calls.
C16_CallsPairedWithResults ==
    RequestSent =>
      /\ \A k \in 1..Len(RequestHistory) :
           HasToolUses(RequestTurns[k])
             => /\ HasToolResults(RequestTurns[k + 1])
                /\ UseIds(RequestTurns[k]) \subseteq ResultIds(RequestTurns[k + 1])
      /\ \A k \in 1..Len(RequestTurns) :
           HasToolResults(RequestTurns[k])
             => k > 1 /\ HasToolUses(RequestTurns[k - 1])

\* the messages user, assistant with a tool call were sent as a history that
\* ends with the tool-call turn and a current message without tool results
C16_Witness ==
    /\ RequestSent
    /\ qMessages = <<ContextMessages[1], ContextMessages[4]>>
    /\ HasToolUses(RequestHistory[Len(RequestHistory)])
    /\ ~HasToolResults(RequestCurrent)

\* userInputMessageContext.tools ?? []
RequestCatalog == IF qRequest.tools = <<>> THEN <<>> ELSE qRequest.tools[1]

CallerCatalog == IF qTools = <<>> THEN <<>> ELSE convertToolsToKiro(qTools[1])

CatalogNames == {RequestCatalog[k].name : k \in 1..Len(RequestCatalog)}

\* the catalog is the caller's specs followed by one placeholder for each
\* name of the history that the caller's specs lack, and holds every name of
\* the history
Reconciled ==
    /\ Range(extractToolNamesFromHistory(RequestHistory)) \subseteq CatalogNames
    /\ Len(RequestCatalog) >= Len(CallerCatalog)
    /\ SubSeq(RequestCatalog, 1, Len(CallerCatalog)) = CallerCatalog
    /\ \A k \in (Len(CallerCatalog) + 1)..Len(RequestCatalog) :
         /\ RequestCatalog[k] = PlaceholderTool(RequestCatalog[k].name)
         /\ RequestCatalog[k].name \in Range(extractToolNamesFromHistory(RequestHistory))
    /\ \A j, k \in 1..Len(RequestCatalog) :
         RequestCatalog[j].name = RequestCatalog[k].name => j = k

\* C17: in every request sent, on first attempts and on retries, every tool
\* name of a tool call in the history is in the tool catalog of the request:
\* the names the caller's catalog lacks are appended as placeholder specs with
\* an empty object schema, the caller's specs are kept and never duplicated.
C17_CatalogCoversHistory == RequestSent => Reconciled

\* C17: the catalog is reconciled in the first attempt of a turn whose caller
\* gave at least one tool.
C17_CoversOnFirstAttemptWithTools ==
    RequestSent /\ qSends = 1 /\ ToolsGiven(qTools) => Reconciled

\* a retry sent a catalog of three specs without the name f of its history
C17_Witness ==
    /\ qSends > 1
    /\ Len(RequestCatalog) = 3
    /\ ToolF \in Range(extractToolNamesFromHistory(RequestHistory))
    /\ ToolF \notin CatalogNames

-----------------------------------------------------------------------------
(* The events and the reason of a turn that ends with done, under Spec.       *)

EndedWithDone == events # <<>> /\ LastEvent.type = "done"

\* the types of the three events of a block, by the kind of the block
BlockEvents ==
    { [start |-> "thinking_start", delta |-> "thinking_delta", end |-> "thinking_end"],
      [start |-> "text_start", delta |-> "text_delta", end |-> "text_end"],
      [start |-> "toolcall_start", delta |-> "toolcall_delta", end |-> "toolcall_end"] }

\* the places of the events of the given type
PlacesOf(type) == {i \in DOMAIN events : events[i].type = type}

\* the places of the events of the given type for the block at contentIndex c
PlacesAt(type, c) ==
    {i \in DOMAIN events : events[i].type = type /\ events[i].contentIndex = c}

\* the block of kind k at contentIndex c, if it has any event, has one start,
\* then its deltas, then one end
BlockOrdered(k, c) ==
    PlacesAt(k.start, c) \cup PlacesAt(k.delta, c) \cup PlacesAt(k.end, c) # {}
      => /\ Cardinality(PlacesAt(k.start, c)) = 1
         /\ Cardinality(PlacesAt(k.end, c)) = 1
         /\ \A i \in PlacesAt(k.start, c) :
              \A j \in PlacesAt(k.delta, c) \cup PlacesAt(k.end, c) : i < j
         /\ \A j \in PlacesAt(k.delta, c) : \A l \in PlacesAt(k.end, c) : j < l

ToolCallPlaces ==
    PlacesOf("toolcall_start") \cup PlacesOf("toolcall_delta") \cup PlacesOf("toolcall_end")

\* C19: in every turn that ends with done there is exactly one start event
\* and it comes first, also after size-rejected attempts; each thinking, text
\* and tool-call block has its start before all its deltas and these before
\* its single end; every started block is ended before done; all toolcall
\* events come after the text_end; done is the last event and the only done.
C19_EventsOrdered ==
    EndedWithDone =>
      /\ PlacesOf("start") = {1}
      /\ PlacesOf("done") = {Len(events)}
      /\ PlacesOf("error") = {}
      /\ \A k \in BlockEvents : \A c \in 0..Len(events) : BlockOrdered(k, c)
      /\ \A i \in PlacesOf("text_end") : \A j \in ToolCallPlaces : i < j

\* a turn whose first attempt was rejected for its size ended with done after
\* a text block and a tool call
C19_Witness ==
    /\ EndedWithDone
    /\ retryCount > 0
    /\ PlacesOf("text_delta") # {}
    /\ PlacesOf("toolcall_end") # {}

\* a turn with thinking on ended with done after a thinking block and a text
\* block
C19_ThinkingWitness ==
    /\ EndedWithDone
    /\ PlacesOf("thinking_end") # {}
    /\ PlacesOf("text_end") # {}

\* the message of the done event has a tool-call part
HasToolCallPart == \E k \in 1..Len(output.content) : output.content[k].type = "toolCall"

\* the calls that were closed while the stream was read, by a stop flag or by
\* the opening of another call; the call still open when the read loop ended
\* is the last of toolCalls and is kept in currentToolCall
ClosedCalls == Len(toolCalls) - Len(currentToolCall)

\* a call was closed, or one is still open
CallBegun == Len(toolCalls) > 0 \/ currentToolCall # <<>>

\* C20 as stated: on done the reason is toolUse if a tool call was completed
\* during the stream and stop otherwise, and it is toolUse exactly when the
\* final message has a tool-call part.
C20_ToolUseIffCallCompleted ==
    EndedWithDone =>
      /\ LastEvent.reason = output.stopReason
      /\ LastEvent.reason \in {"toolUse", "stop"}
      /\ LastEvent.reason = "toolUse" <=> ClosedCalls > 0
      /\ LastEvent.reason = "toolUse" <=> HasToolCallPart

\* C20 (amended): on done the reason is toolUse if a tool call was begun
\* during the stream, closed or still open when the read loop ended, and stop
\* otherwise; it is toolUse exactly when the final message has a tool-call
\* part.
C20_ToolUseIffCallBegun ==
    EndedWithDone =>
      /\ LastEvent.reason = output.stopReason
      /\ LastEvent.reason \in {"toolUse", "stop"}
      /\ LastEvent.reason = "toolUse" <=> CallBegun
      /\ LastEvent.reason = "toolUse" <=> HasToolCallPart

\* a turn ended with done and toolUse for a call that never had its stop flag
C20_Witness ==
    /\ EndedWithDone
    /\ LastEvent.reason = "toolUse"
    /\ currentToolCall # <<>>
    /\ ClosedCalls = 0

-----------------------------------------------------------------------------
(* The end of the read loop and the usage of a turn, under Spec.              *)

\* whether the first n bytes of the body b hold a context-usage event
HoldsUsage(b, n) ==
    \E e \in Range(parseKiroEvents(SubSeq(b, 1, n)).events) : e.type = "contextUsage"

\* for each body, how many of its bytes must be read for the parser to return
\* a context-usage event; more than the body has if it holds none
UsageEnd ==
    [b \in Bodies |->
       IF HoldsUsage(b, Len(b))
       THEN CHOOSE n \in 1..Len(b) : HoldsUsage(b, n) /\ ~HoldsUsage(b, n - 1)
       ELSE Len(b) + 1]

\* how many bytes of the last response's body the reads have returned
Consumed == IF responses = <<>> THEN 0 ELSE Len(LastResponse.body) - Len(body)

\* a context-usage event was processed
UsageSeen == responses # <<>> /\ Consumed >= UsageEnd[LastResponse.body]

\* C21: once a context-usage event has been processed the read loop is left:
\* the turn has ended with done, and no further read is issued, also when the
\* body has bytes left; a read that finds the connection closed without a
\* context-usage event ends the loop as well, and the turn ends with done.
C21_UsageOrCloseEndsTheRead ==
    /\ [](UsageSeen => Finished /\ EndedWithDone)
    /\ [][UsageSeen => body' = body]_vars
    /\ [][ReadDone => Finished' /\ EndedWithDone']_vars

\* a turn ended with done at the context-usage event with bytes of the body
\* left unread
C21_Witness ==
    /\ UsageSeen
    /\ EndedWithDone
    /\ body # <<>>

\* a turn ended with done when the connection closed without a context-usage
\* event
C21_CloseWitness ==
    /\ ~UsageSeen
    /\ EndedWithDone
    /\ body = <<>>
    /\ ~readerCancelled

\* the percentage of the context-usage object of a body, 0 for a body
\* without one
UsagePct ==
    [b \in Bodies |->
        LET usage == SelectSeq(parseKiroEvents(b).events,
                               LAMBDA e : e.type = "contextUsage")
        IN  IF usage = <<>> THEN 0 ELSE usage[1].data.contextUsagePercentage.n]
SeenPct == IF UsageSeen THEN UsagePct[LastResponse.body] ELSE 0

\* C22 as stated: on done the input tokens are the percentage of the
\* context-usage event divided by 100 times model.contextWindow, 0 when no
\* such event was seen, and totalTokens is input plus output.
C22_InputIsShareOfWindow ==
    EndedWithDone =>
        /\ 100 * output.usageInput = SeenPct * contextWindow
        /\ output.totalTokens = output.usageInput + output.usageOutput

\* C22 amended: on done the input tokens are that share of the window rounded
\* to the nearest whole number, a half rounded up (10 of 200000 is 20000, 5 of
\* 250 is 13), 0 when no context-usage event was seen, and totalTokens is input
\* plus output.
C22_InputIsRoundedShare ==
    EndedWithDone =>
        /\ 2 * (100 * output.usageInput - SeenPct * contextWindow) \in -99..100
        /\ output.totalTokens = output.usageInput + output.usageOutput
C22_Witness ==
    /\ EndedWithDone /\ UsageSeen
    /\ 100 * output.usageInput # SeenPct * contextWindow
    /\ output.totalTokens = output.usageInput + output.usageOutput
C22_ExampleWitness ==
    /\ EndedWithDone /\ SeenPct = 10 /\ contextWindow = ContextWindow
    /\ output.usageInput = 20000 /\ output.totalTokens > 20000
C22_NoUsageWitness ==
    EndedWithDone /\ ~UsageSeen /\ output.usageInput = 0 /\ output.usageOutput > 0

-----------------------------------------------------------------------------
(* The messages dropped before a request is built, under RequestSpec.        *)

\* an assistant message whose turn ended in an error or was aborted
Dropped(msg) == msg.role = "assistant" /\ msg.stopReason \in {"error", "aborted"}
KeptPlaces(messages) == {i \in DOMAIN messages : ~Dropped(messages[i])}

\* the messages at the kept places, in the order of the places
KeptInOrder(messages) ==
    LET place(k) == CHOOSE i \in KeptPlaces(messages) :
                       Cardinality({j \in KeptPlaces(messages) : j <= i}) = k
    IN  [k \in 1..Cardinality(KeptPlaces(messages)) |-> messages[place(k)]]

\* the characters and tool names that only dropped messages of the contexts
\* hold
DroppedMarks == {"Z", "Y", "z"}
TextsOfTurn(m) ==
    IF IsUser(m)
    THEN {m.userInputMessage[1].content.s}
         \cup (IF m.userInputMessage[1].toolResults = <<>> THEN {}
               ELSE {res.text : res \in Range(m.userInputMessage[1].toolResults[1])})
    ELSE {m.assistantResponseMessage[1].content.s}
         \cup (IF m.assistantResponseMessage[1].toolUses = <<>> THEN {}
               ELSE {use.name : use \in Range(m.assistantResponseMessage[1].toolUses[1])})
MarksOf(turns) == UNION {Range(t) : t \in UNION {TextsOfTurn(m) : m \in Range(turns)}}

\* C23: normalizeMessages keeps exactly the messages that are not assistant
\* messages stopped by error or abort, in their order; the request of every
\* attempt is the one the kept messages alone give, and no text or tool name
\* of a dropped message is in its history or current message.
C23_DroppedMessagesLeaveNoTrace ==
    /\ normalizeMessages(qMessages) = KeptInOrder(qMessages)
    /\ RequestSent =>
          /\ qRequest = RequestOf(KeptInOrder(qMessages), qTools, qSystemPrompt,
                                  TestModelId, qFactor)
          /\ MarksOf(RequestTurns) \cap DroppedMarks = {}
C23_Witness ==
    /\ RequestSent /\ qRetryCount > 0
    /\ \E i, j, k \in DOMAIN qMessages :
          /\ i < j /\ j < k
          /\ ~Dropped(qMessages[i]) /\ Dropped(qMessages[j]) /\ ~Dropped(qMessages[k])
          /\ qMessages[i] # qMessages[k]
    /\ \E i, j \in DOMAIN qMessages :
          qMessages[i].role = "assistant" /\ qMessages[j].role = "assistant"
          /\ qMessages[i].stopReason = "error" /\ qMessages[j].stopReason = "aborted"
    /\ Len(RequestHistory) > 0

-----------------------------------------------------------------------------
(* Two turns at once against one turn alone, under PairSpec.                 *)

\* the locals of the read loop before the first read, after the start event
FirstWorking ==
    [textBuffer         |-> NewThinkingTagParser.textBuffer,
     inThinking         |-> NewThinkingTagParser.inThinking,
     thinkingExtracted  |-> NewThinkingTagParser.thinkingExtracted,
     thinkingBlockIndex |-> NewThinkingTagParser.thinkingBlockIndex,
     textBlockIndex     |-> NewThinkingTagParser.textBlockIndex,
     content            |-> NewOutput.content,
     events             |-> <<[type |-> "start"]>>,
     localTextBlockIndex |-> Null,
     totalContent       |-> <<>>,
     toolCalls          |-> <<>>,
     currentToolCall    |-> <<>>,
     usageInput         |-> 0,
     streamComplete     |-> FALSE]

\* the read loop of lines 262-309 run by itself on the bytes rest, in reads of
\* MaxRead bytes, from the locals w and the carry-over carry: the locals at
\* its end
RECURSIVE AloneRead(_, _, _)
AloneRead(w, carry, rest) ==
    IF rest = <<>> THEN w
    ELSE LET n == IF Len(rest) < MaxRead THEN Len(rest) ELSE MaxRead
             parsed == parseKiroEvents(carry \o SubSeq(rest, 1, n))
             w1 == HandleEvents(w, parsed.events, 1)
         IN  IF w1.streamComplete THEN w1
             ELSE AloneRead(w1, parsed.remaining, SubSeq(rest, n + 1, Len(rest)))

RECURSIVE ReducedTimes(_)
ReducedTimes(k) == IF k = 0 THEN 1000 ELSE Reduce(ReducedTimes(k - 1))

\* what a turn with the script sc gives when no other turn runs
Alone(sc) ==
    IF sc.rejections > maxRetries
    THEN [events |-> <<[type |-> "error", reason |-> "error",
                        errorMessage |-> [kind |-> "api", status |-> SizeRejection.status,
                                          text |-> SizeRejection.text]]>>,
          content |-> <<>>, usageInput |-> 0, usageOutput |-> 0, stopReason |-> "error",
          retryCount |-> maxRetries, reductionFactor |-> ReducedTimes(maxRetries)]
    ELSE LET w == Assembled(AloneRead(FirstWorking, <<>>, sc.body))
             reason == IF Len(w.toolCalls) > 0 THEN "toolUse" ELSE "stop"
         IN  [events |-> Append(w.events, [type |-> "done", reason |-> reason]),
              content |-> w.content, usageInput |-> w.usageInput,
              usageOutput |-> CeilQuarter(Len(w.totalContent)), stopReason |-> reason,
              retryCount |-> sc.rejections,
              reductionFactor |-> ReducedTimes(sc.rejections)]

\* the same of the running turn
Outcome ==
    [events |-> events, content |-> output.content, usageInput |-> output.usageInput,
     usageOutput |-> output.usageOutput, stopReason |-> output.stopReason,
     retryCount |-> retryCount, reductionFactor |-> reductionFactor]

\* C24: whatever the order in which two turns are resumed at their awaits, a
\* turn that has finished pushed the events and holds the output message,
\* the retry count and the reduction factor that its script gives when the
\* turn runs alone.
C24_TurnsIndependent ==
    (running \in {1, 2} /\ Finished) => Outcome = Alone(script[running])
C24_Witness ==
    /\ running = 1 /\ Finished /\ EndedWithDone
    /\ retryCount = 1
    /\ parked.pc = "read" /\ parked.buffer # <<>> /\ parked.retryCount = 1
    /\ script[1].body # script[2].body
    /\ Len(events) > 3
C24_BothFinishedWitness ==
    /\ running = 2 /\ Finished /\ parked.pc = "finished"
    /\ LastEvent.type = "error" /\ parked.events[Len(parked.events)].type = "done"
    /\ Len(parked.output.content) > 1

-----------------------------------------------------------------------------
(* The current slice of a context that ends with tool results, under         *)
(* RequestSpec.                                                              *)

Normalized == normalizeMessages(qMessages)
EndsWithToolResults(msgs) == msgs # <<>> /\ msgs[Len(msgs)].role = "toolResult"

\* the place of the first message of the run of toolResult messages at the end
RunStart(msgs) ==
    CHOOSE i \in 1..Len(msgs) :
       /\ \A j \in i..Len(msgs) : msgs[j].role = "toolResult"
       /\ i = 1 \/ msgs[i - 1].role # "toolResult"

IssuedCalls(msg) == msg.role = "assistant" /\ HasToolCall(msg)

\* the place where the current slice starts, after the statement
StatedStart(msgs) ==
    IF RunStart(msgs) > 1 /\ IssuedCalls(msgs[RunStart(msgs) - 1])
    THEN RunStart(msgs) - 1 ELSE RunStart(msgs)

\* the place where build lets it start
BuiltStart ==
    buildHistory(Normalized, TestModelId, EffectiveSystemPrompt(qSystemPrompt, qFactor),
                 qFactor).currentMsgStartIdx + 1

\* the ids of the tool results in the current message of the request, and of
\* the run at the end of the messages
DeliveredIds ==
    IF qRequest.toolResults = <<>> THEN <<>>
    ELSE [k \in DOMAIN qRequest.toolResults[1] |-> qRequest.toolResults[1][k].toolUseId]
RunIds(msgs) ==
    [k \in 1..(Len(msgs) - RunStart(msgs) + 1) |-> msgs[RunStart(msgs) + k - 1].toolCallId]

UserBeforeRun(msgs) == RunStart(msgs) > 1 /\ msgs[RunStart(msgs) - 1].role = "user"

\* C25 as stated: for messages that end with a run of tool results the
\* current slice is the run, preceded by the message before it exactly when
\* that is an assistant message with tool calls, and the tool results of the
\* run are the tool results of the request's current message.
C25_CurrentIsTheRun ==
    (RequestSent /\ EndsWithToolResults(Normalized)) =>
        /\ BuiltStart = StatedStart(Normalized)
        /\ DeliveredIds = RunIds(Normalized)

\* the statement holds when the message before the run is not a user message
C25_HoldsUnlessUserBefore ==
    (RequestSent /\ EndsWithToolResults(Normalized) /\ ~UserBeforeRun(Normalized)) =>
        /\ BuiltStart = StatedStart(Normalized)
        /\ DeliveredIds = RunIds(Normalized)

\* a user message before the run: the slice starts at the user message and
\* the request carries its text and no tool result
C25_Witness ==
    /\ RequestSent /\ EndsWithToolResults(Normalized) /\ UserBeforeRun(Normalized)
    /\ BuiltStart = RunStart(Normalized) - 1
    /\ DeliveredIds = <<>>
    /\ qRequest.content.s = <<"u">>
C25_AssistantWitness ==
    /\ RequestSent /\ EndsWithToolResults(Normalized)
    /\ Len(Normalized) - RunStart(Normalized) = 1
    /\ BuiltStart = RunStart(Normalized) - 1 /\ BuiltStart > 1
    /\ IssuedCalls(Normalized[BuiltStart])
    /\ DeliveredIds = <<IdA, IdB>>

-----------------------------------------------------------------------------
(* The system prompt in the request, under RequestSpec.                      *)

Effective == EffectiveSystemPrompt(qSystemPrompt, qFactor)

\* the user turn m starts with the effective system prompt and a blank line
CarriesPrompt(m) ==
    /\ IsUser(m)
    /\ Len(m.userInputMessage[1].content.s) >= Len(Effective) + 2
    /\ SubSeq(m.userInputMessage[1].content.s, 1, Len(Effective) + 2)
          = Effective \o <<"\n", "\n">>

\* how many turns of the request, its history and its current message, carry
\* the prompt
PromptCarriers == {k \in DOMAIN RequestTurns : CarriesPrompt(RequestTurns[k])}

\* C26 as stated: a request for a context with a system prompt carries the
\* effective prompt exactly once, in a user turn of the history or in the
\* current content.
C26_PromptExactlyOnce ==
    (RequestSent /\ qSystemPrompt # <<>>) => Cardinality(PromptCarriers) = 1

\* the prompt is never carried twice
C26_PromptAtMostOnce ==
    (RequestSent /\ qSystemPrompt # <<>>) => Cardinality(PromptCarriers) <= 1

\* the prompt is carried when the normalized messages hold a user message and
\* the history was not cut
HistoryUncut ==
    LET built == buildHistory(Normalized, TestModelId, Effective, qFactor)
    IN  truncateHistory(built.history, FloorTimes(HISTORY_LIMIT, qFactor)) = built.history
C26_PromptOnceWhenUncut ==
    (/\ RequestSent /\ qSystemPrompt # <<>> /\ HistoryUncut
     /\ \E k \in DOMAIN Normalized : Normalized[k].role = "user")
        => Cardinality(PromptCarriers) = 1

\* the history was cut on a retry and the user turn that carried the prompt
\* went with it
C26_Witness ==
    /\ RequestSent /\ qSystemPrompt # <<>> /\ ~HistoryUncut /\ qRetryCount > 0
    /\ Normalized[1].role = "user"
    /\ PromptCarriers = {}
    /\ Len(RequestHistory) > 0
\* messages without a user message
C26_NoUserWitness ==
    /\ RequestSent /\ qSystemPrompt # <<>> /\ HistoryUncut
    /\ Normalized # <<>> /\ \A k \in DOMAIN Normalized : Normalized[k].role # "user"
    /\ PromptCarriers = {}
C26_HistoryWitness ==
    /\ RequestSent /\ qSystemPrompt # <<>> /\ qRetryCount > 0
    /\ \E k \in DOMAIN RequestHistory : PromptCarriers = {k}
C26_CurrentWitness ==
    /\ RequestSent /\ qSystemPrompt # <<>>
    /\ PromptCarriers = {Len(RequestTurns)}

-----------------------------------------------------------------------------
(* The caller's data and the arrays of the attempts, under RequestSpec.      *)

\* C27: no attempt changes the caller's messages or tools, in value or in
\* place; the request of every attempt is the one the caller's messages and
\* the factor of the attempt give; an array is changed in place only by the
\* attempt that made it, and the history of a request is an array made by its
\* attempt that holds entries made by this attempt only.
C27_AttemptsShareNothing ==
    /\ [][qMessages' = qMessages /\ qTools' = qTools]_vars
    /\ [](RequestSent =>
            /\ qRequest = RequestOf(qMessages, qTools, qSystemPrompt, TestModelId,
                                    ReducedTimes(qSends - 1))
            /\ \A i \in DOMAIN qArrays : qArrays[i].writers \subseteq {qArrays[i].made} \ {0}
            /\ qHistoryArray # 0 =>
                  /\ qArrays[qHistoryArray].made = qSends
                  /\ qArrays[qHistoryArray].holds = {qSends})
C27_Witness ==
    /\ qSends = 3
    /\ qHistoryArray # 0
    /\ qArrays[qHistoryArray].writers = {3}
    /\ \E i \in DOMAIN qArrays :
          /\ qArrays[i].name = "history" /\ qArrays[i].made = 2
          /\ qArrays[i].writers = {2}
    /\ \E i, j \in DOMAIN qArrays :
          /\ i < j /\ qArrays[i].name = "sanitized" /\ qArrays[j].name = "sanitized"
          /\ qArrays[i].made = 3 /\ qArrays[j].made = 3 /\ qArrays[i].writers = {3}
    /\ Len(qMessages) = MaxMessages /\ ToolsGiven(qTools)

-----------------------------------------------------------------------------
(* The idle timer of the read loop, under Spec.                              *)

\* a read of the body is pending: the turn awaits reader.read() and the
\* reader was not cancelled
ReadPending == pc = "read" /\ ~readerCancelled

\* C28 as stated: whenever a read of the body is pending the idle timer is
\* armed, the first read included.
C28_TimerArmedWhileReading == ReadPending => idleTimer = "armed"

\* the timer is armed during every read but the first
C28_TimerArmedAfterFirstChunk == (ReadPending /\ Consumed > 0) => idleTimer = "armed"

\* the first read is pending, no timer was set and none can fire: if the
\* connection stays silent and the caller has no signal, the turn has no
\* next step of its own
C28_Witness ==
    /\ ReadPending /\ Consumed = 0 /\ body # <<>>
    /\ idleTimer = "none"
    /\ ~hasSignal
    /\ ~ENABLED IdleFire
    /\ Terminals = {}
C28_LaterWitness ==
    /\ ReadPending /\ Consumed > 0 /\ body # <<>>
    /\ idleTimer = "armed" /\ ENABLED IdleFire

-----------------------------------------------------------------------------
(* What the extractor keeps back between two chunks, under ThinkSpec.        *)

Before == ~tParser.inThinking /\ ~tParser.thinkingExtracted
Inside == tParser.inThinking
BetweenChunks == tPos > 0 /\ ~tFinal

\* the characters given so far that follow the open marker
GivenInside == SubSeq(ThinkInput, Len(Lead) + Len(THINKING_START_TAG) + 1, tPos)
Shorter(a, b) == IF a < b THEN a ELSE b

\* after a call of processChunk that left the extractor in BEFORE or INSIDE,
\* the buffer holds the last `held` characters given, all of them if they are
\* fewer, and what precedes them was pushed as answer or thinking deltas
WithholdsBefore(held) ==
    (BetweenChunks /\ Before) =>
        /\ Len(tParser.textBuffer) = Shorter(tPos, held)
        /\ DeltasOf("text_delta") \o tParser.textBuffer = SubSeq(ThinkInput, 1, tPos)
WithholdsInside(held) ==
    (BetweenChunks /\ Inside) =>
        /\ Len(tParser.textBuffer) = Shorter(Len(GivenInside), held)
        /\ DeltasOf("thinking_delta") \o tParser.textBuffer = GivenInside

C29_InsideWitness ==
    /\ BetweenChunks /\ Inside /\ tShape = "open"
    /\ Len(tParser.textBuffer) = Len(THINKING_END_TAG)
    /\ DeltasOf("thinking_delta") = <<"a">>
C29_ShortWitness ==
    /\ BetweenChunks /\ Before /\ tShape = "closed"
    /\ tParser.textBuffer = SubSeq(THINKING_START_TAG, 1, 9)
    /\ tParser.events = <<>>

-----------------------------------------------------------------------------
(* finalize, under ThinkSpec.                                                *)

\* the deltas of one kind in the stream of the parser m, concatenated
DeltasIn(m, type) ==
    LET ds == SelectSeq(m.events, LAMBDA e : e.type = type)
    IN  Concat([i \in 1..Len(ds) |-> ds[i].delta])

\* finalize took the parser from m to n and pushed the buffer of m as deltas
\* of the kind type and nothing as deltas of the kind other
FlushedAs(m, n, type, other) ==
    /\ DeltasIn(n, type) = DeltasIn(m, type) \o m.textBuffer
    /\ DeltasIn(n, other) = DeltasIn(m, other)
EndsWithThinkingEnd(n) == n.events # <<>> /\ n.events[Len(n.events)].type = "thinking_end"

\* the step is a call of finalize
Finalizes == ~tFinal /\ tFinal'

\* C30 as stated: finalize leaves the buffer empty; what was buffered INSIDE
\* is pushed as thinking content, followed by the end of the thinking block,
\* and what was buffered in any other state is pushed as answer content.
C30_FinalizeFlushesByState ==
    [][Finalizes =>
         /\ tParser'.textBuffer = <<>>
         /\ IF tParser.inThinking
            THEN tParser.textBuffer # <<>> =>
                    /\ FlushedAs(tParser, tParser', "thinking_delta", "text_delta")
                    /\ EndsWithThinkingEnd(tParser')
            ELSE FlushedAs(tParser, tParser', "text_delta", "thinking_delta")]_vars

\* what finalize does: INSIDE it pushes the buffer as thinking content only
\* if a thinking block was started, and as answer content otherwise
C30_FinalizeFlushesByBlock ==
    [][Finalizes =>
         /\ tParser'.textBuffer = <<>>
         /\ IF tParser.inThinking /\ tParser.thinkingBlockIndex # Null
            THEN tParser.textBuffer # <<>> =>
                    /\ FlushedAs(tParser, tParser', "thinking_delta", "text_delta")
                    /\ EndsWithThinkingEnd(tParser')
            ELSE FlushedAs(tParser, tParser', "text_delta", "thinking_delta")]_vars

\* the response ended inside a thinking section of one character: finalize
\* pushed it as answer text, and no thinking block exists
C30_Witness ==
    /\ tFinal /\ tShape = "open" /\ tA = <<"a">>
    /\ tParser.inThinking /\ tParser.thinkingBlockIndex = Null
    /\ tParser.textBuffer = <<>>
    /\ DeltasOf("text_delta") = <<"a">>
    /\ DeltasOf("thinking_delta") = <<>>
    /\ tParser.content = <<[type |-> "text", text |-> <<"a">>]>>
C30_InsideWitness ==
    /\ tFinal /\ tShape = "open" /\ Len(tA) > 1
    /\ tParser.inThinking /\ tParser.textBuffer = <<>>
    /\ DeltasOf("thinking_delta") = tA /\ DeltasOf("text_delta") = <<>>
    /\ EndsWithThinkingEnd(tParser)
C30_BeforeWitness ==
    /\ tFinal /\ tShape = "plain" /\ tPos > 1
    /\ Before /\ tParser.textBuffer = <<>>
    /\ DeltasOf("text_delta") = ThinkInput
    /\ tParser.events[Len(tParser.events)].type = "text_delta"
    /\ tParser.events[Len(tParser.events)].delta # <<>>

-----------------------------------------------------------------------------
(* The blocks of the extractor and its last state, under ThinkSpec.          *)

After == tParser.thinkingExtracted
EventsOf(m, type) == SelectSeq(m.events, LAMBDA e : e.type = type)
BlocksOf(m, type) == SelectSeq(m.content, LAMBDA b : b.type = type)

\* the characters given by the step
GivenNow == SubSeq(ThinkInput, tPos + 1, tPos')

\* C31: over the calls of processChunk and the final call of finalize the
\* output holds at most one thinking block and at most one answer block, each
\* started once; after finalize thinking_end was pushed once if
\* thinking_start was pushed and never otherwise; and a call made in AFTER
\* leaves the extractor in AFTER, pushes no thinking event and pushes all the
\* characters it was given, markers included, as answer text.
C31_OneBlockEachAndAfterIsLast ==
    /\ [](/\ Len(BlocksOf(tParser, "thinking")) <= 1
          /\ Len(BlocksOf(tParser, "text")) <= 1
          /\ Len(EventsOf(tParser, "thinking_start")) = Len(BlocksOf(tParser, "thinking"))
          /\ Len(EventsOf(tParser, "text_start")) = Len(BlocksOf(tParser, "text"))
          /\ Len(EventsOf(tParser, "thinking_end")) <= Len(EventsOf(tParser, "thinking_start"))
          /\ tFinal => Len(EventsOf(tParser, "thinking_end"))
                           = Len(EventsOf(tParser, "thinking_start")))
    /\ [][After =>
            /\ After' /\ ~tParser'.inThinking
            /\ tParser'.textBuffer = <<>>
            /\ DeltasIn(tParser', "text_delta") = DeltasIn(tParser, "text_delta") \o GivenNow
            /\ \A type \in {"thinking_start", "thinking_delta", "thinking_end"} :
                   EventsOf(tParser', type) = EventsOf(tParser, type)]_vars

\* the text p<thinking>a</thinking>b was given, then the second section in
\* chunks of its own, and finalize was called: one thinking block holds a, one
\* answer block holds p, b and the second section with its markers
C31_Witness ==
    /\ tFinal /\ tShape = "again" /\ tA = <<"a">> /\ tB = <<"b">>
    /\ Len(ThinkInput) - Len(Second) \in tCuts
    /\ Cardinality(tCuts) = MaxCalls
    /\ tParser.content = <<[type |-> "text", text |-> <<"p", "b">> \o Second],
                           [type |-> "thinking", thinking |-> <<"a">>]>>
    /\ Len(EventsOf(tParser, "thinking_end")) = 1
\* no thinking block: the section was empty, and no thinking event was pushed
C31_EmptyWitness ==
    /\ tFinal /\ tShape = "closed" /\ tA = <<>> /\ After
    /\ Len(EventsOf(tParser, "thinking_start")) = 0
    /\ Len(EventsOf(tParser, "thinking_end")) = 0
\* the thinking block was closed by finalize
C31_OpenWitness ==
    /\ tFinal /\ tShape = "open" /\ Inside
    /\ Len(EventsOf(tParser, "thinking_end")) = 1

-----------------------------------------------------------------------------
(* The sides of the turns that buildHistory returns, under RequestSpec.       *)

\* the history buildHistory returns for the attempt (stream.ts lines 106-111)
BuiltHistory ==
    buildHistory(Normalized, TestModelId, EffectiveSystemPrompt(qSystemPrompt, qFactor),
                 qFactor).history

SameSide(a, b) == (IsUser(a) /\ IsUser(b)) \/ (IsAssistant(a) /\ IsAssistant(b))
AdjacentSameSide(history) ==
    { k \in 1..(Len(history) - 1) : SameSide(history[k], history[k + 1]) }
IsSeparator(turn) == turn = AssistantTurn(Text(ContinueText), <<>>)

\* C32: the turn list buildHistory returns never holds two adjacent turns of
\* the same side, two user turns or two assistant turns.
C32_NoAdjacentSameSide == RequestSent => AdjacentSameSide(BuiltHistory) = {}

\* what buildHistory sees to: no two user turns are adjacent, and the list
\* never begins with a separator
C32_NoAdjacentUserTurns ==
    RequestSent =>
       /\ \A k \in AdjacentSameSide(BuiltHistory) : IsAssistant(BuiltHistory[k])
       /\ BuiltHistory # <<>> => ~IsSeparator(BuiltHistory[1])

\* the messages user, assistant with text, assistant with a tool call, user
\* gave the list user, assistant, assistant
C32_Witness ==
    /\ RequestSent
    /\ qMessages = <<ContextMessages[1], ContextMessages[3], ContextMessages[4],
                     ContextMessages[1]>>
    /\ Len(BuiltHistory) = 3
    /\ IsUser(BuiltHistory[1])
    /\ IsAssistant(BuiltHistory[2]) /\ ~IsSeparator(BuiltHistory[2])
    /\ IsAssistant(BuiltHistory[3]) /\ ~IsSeparator(BuiltHistory[3])
\* three user messages gave user, separator, user, the third being current
C32_SeparatorWitness ==
    /\ RequestSent
    /\ qMessages = <<ContextMessages[1], ContextMessages[1], ContextMessages[1]>>
    /\ Len(BuiltHistory) = 3
    /\ IsUser(BuiltHistory[1]) /\ IsSeparator(BuiltHistory[2]) /\ IsUser(BuiltHistory[3])

-----------------------------------------------------------------------------
(* The loop of truncateHistory, under TruncateSpec.                          *)

InLoop == hCalled = "loop"
Returned == hCalled = "truncateHistory"
Iterates == InLoop /\ TruncateMore /\ InLoop'

\* C33: truncateHistory returns for every entry list and every byte budget,
\* also one smaller than any entry: every pass of its loop leaves fewer
\* entries than it found, and a call that was made comes to its return.
C33_TruncateTerminates ==
    /\ [][Iterates => Len(hResult') < Len(hResult)]_vars
    /\ [](InLoop /\ TruncateMore => Len(TruncateStep(hResult)) < Len(hResult))
    /\ [](Returned => hResult = truncateHistory(hHistory, hLimit))
    /\ (InLoop ~> Returned)

\* the loop made two passes for a budget smaller than any entry and
\* truncateHistory returned
C33_Witness ==
    /\ Returned
    /\ hLimit = 0
    /\ Len(sanitizeHistory(hHistory)) = 4
    /\ Len(TruncateStep(sanitizeHistory(hHistory))) = 3
    /\ Len(hResult) = 2

-----------------------------------------------------------------------------
(* What the loop of truncateHistory leaves, under TruncateSpec.              *)

Sanitized == sanitizeHistory(hHistory)
IsSuffix(a, b) == Len(a) <= Len(b) /\ a = SubSeq(b, Len(b) - Len(a) + 1, Len(b))

\* the loop drops leading entries only, and only while more than two are left
DropsLeading ==
    /\ [](InLoop => IsSuffix(hResult, Sanitized))
    /\ [][Iterates => /\ Len(hResult) > 2
                      /\ IsSuffix(hResult', hResult)
                      /\ Len(hResult') < Len(hResult)]_vars

\* C34: truncation drops only leading entries, only while more than two
\* entries remain, and a history that sanitizes to two or more entries is
\* never truncated to fewer than two, whatever the budget.
C34_NeverBelowTwoEntries ==
    /\ DropsLeading
    /\ []((InLoop \/ Returned) /\ Len(Sanitized) >= 2 => Len(hResult) >= 2)

\* what the loop does guarantee: it drops leading entries only, while more
\* than two are left; a list of two entries or fewer is left as it is; and
\* what is left after a pass is empty or starts with a user turn without tool
\* results
C34_DropsLeadingDownToNone ==
    /\ DropsLeading
    /\ [](InLoop /\ Len(Sanitized) <= 2 => hResult = Sanitized)
    /\ [](InLoop /\ hResult # <<>> => IsUser(hResult[1]) /\ ~HasToolResults(hResult[1]))

\* the history long user turn, assistant turn with call a, tool results for a,
\* assistant turn was over the budget of a long exchange, and truncateHistory
\* returned an empty history
C34_Witness ==
    /\ Returned
    /\ hHistory = <<HistoryEntries[2], HistoryEntries[6], HistoryEntries[3],
                    HistoryEntries[5]>>
    /\ Sanitized = hHistory
    /\ hLimit = MinimalExchangeSize + LongFill
    /\ hResult = <<>>
\* the history user, assistant, user was cut to its last user turn
C34_OneLeftWitness ==
    /\ Returned
    /\ hHistory = <<HistoryEntries[1], HistoryEntries[5], HistoryEntries[1]>>
    /\ hResult = <<HistoryEntries[1]>>

-----------------------------------------------------------------------------
(* The read loop on streams of tool calls, src/src/stream.ts lines 262-347:  *)
(* one turn with credentials and a known model, whose response is read in    *)
(* chunks of every size up to MaxRead, or all that is left in one read.      *)

\* the calls f and g of the wire objects
fName == <<"f">>
gName == <<"g">>
tId == <<"t">>
uId == <<"u">>

\* a call begun and continued under its id, closed by the next call, which a
\* stop object closes
CallsBody ==
    ToolUseObj(fName, tId, <<"{">>, FALSE) \o ToolUseObj(fName, tId, <<"}">>, FALSE)
    \o ToolUseObj(gName, uId, <<"{", "}">>, FALSE) \o StopObj

\* continuations and stop objects with and without an open call
ContinuedBody ==
    InputObj(<<"x">>) \o ToolUseObj(fName, tId, <<"{">>, FALSE) \o InputObj(<<"}">>)
    \o StopObj \o StopObj \o InputObj(<<"y">>)

\* a call closed by its own stop flag, and a call left open with an input
\* that is no JSON when the stream ends
OpenBody ==
    ToolUseObj(fName, tId, <<"{", "}">>, TRUE) \o ToolUseObj(gName, tId, <<"{">>, FALSE)

\* a fragment within matched braces that JSON.parse rejects, with an object
\* of the wire format inside it
BrokenFragment == Anchor(kContent) \o <<"x">> \o ContentObj(<<"q">>) \o <<"}">>

\* the fragment, an answer, and a call whose input is no JSON
BrokenBody ==
    BrokenFragment \o ContentObj(<<"o", "k">>)
    \o ToolUseObj(fName, tId, <<"{", "x">>, TRUE) \o ContextUsageObj(5)

\* an answer that goes on after the context usage
UsageBody == ContentObj(<<"H", "i">>) \o ContextUsageObj(10) \o ContentObj(<<"x">>)

StreamBodies == {CallsBody, ContinuedBody, OpenBody, BrokenBody, UsageBody}

StreamResponses ==
    [ok : {TRUE}, status : {200}, text : {<<>>}, hasBody : {TRUE}, body : StreamBodies,
     settled : {FALSE}, errText : {<<>>}]

StreamInit ==
    /\ TurnInit
    /\ apiKey
    /\ resolveKiroModel(modelId).ok
    /\ contextWindow = ContextWindow
    /\ ~badToolArgs
    /\ ~hasSignal
    /\ ParserQuiet
    /\ LibQuiet
    /\ PairQuiet

StreamNext ==
    \/ StreamKiro
    \/ \E resp \in StreamResponses : FetchRespond(resp)
    \/ \E n \in (1..MaxRead) \cup {Len(body)} : ReadChunk(n)
    \/ ReadDone

StreamSpec == StreamInit /\ [][StreamNext]_vars

-----------------------------------------------------------------------------
(* The tool calls of the read loop, under StreamSpec.                        *)

\* the bytes of the response that the read loop has parsed: what was read
\* without what the buffer still holds
Handled ==
    SubSeq(LastResponse.body, 1, Len(LastResponse.body) - Len(body) - Len(buffer))

\* the calls of a stream of events: open holds the call that is open, if any,
\* closed the calls that were closed, in closing order
NoCalls == [open |-> <<>>, closed |-> <<>>]
CloseOpen(c) == [open |-> <<>>, closed |-> c.closed \o c.open]
AppendOpen(c, fragment) ==
    IF c.open = <<>> THEN c ELSE [c EXCEPT !.open[1].input = @ \o fragment]
Begin(c, tc) ==
    IF c.open # <<>> /\ c.open[1].toolUseId = tc.toolUseId
    THEN AppendOpen(c, tc.input)
    ELSE [open   |-> <<[toolUseId |-> tc.toolUseId, name |-> tc.name, input |-> tc.input]>>,
          closed |-> c.closed \o c.open]
CallsStep(c, event) ==
    CASE event.type = "toolUse" ->
            IF Truthy(event.data.stop) THEN CloseOpen(Begin(c, event.data))
            ELSE Begin(c, event.data)
      [] event.type = "toolUseInput" -> AppendOpen(c, event.data.input)
      [] event.type = "toolUseStop" ->
            IF Truthy(event.data.stop) THEN CloseOpen(c) ELSE c
      [] OTHER -> c

RECURSIVE CallsFrom(_, _, _)
CallsFrom(c, evs, i) ==
    IF i > Len(evs) THEN c ELSE CallsFrom(CallsStep(c, evs[i]), evs, i + 1)

\* the calls of the bytes handled so far
CallsNow == CallsFrom(NoCalls, parseKiroEvents(Handled).events, 1)

IsToolCallPart(part) == part.type = "toolCall"
IsToolCallDelta(e) == e.type = "toolcall_delta"

\* the tool calls of the message: the id and the name of each part, and the
\* input that its toolcall_delta event carries
MessageCalls ==
    [k \in 1..Len(SelectSeq(output.content, IsToolCallPart)) |->
        [toolUseId |-> SelectSeq(output.content, IsToolCallPart)[k].id,
         name      |-> SelectSeq(output.content, IsToolCallPart)[k].name,
         input     |-> SelectSeq(events, IsToolCallDelta)[k].delta]]

\* while the body is read, toolCalls and currentToolCall hold the calls of
\* the bytes handled, the message none
TracksCalls ==
    pc = "read" =>
      /\ Len(currentToolCall) <= 1
      /\ currentToolCall = CallsNow.open
      /\ toolCalls = CallsNow.closed
      /\ MessageCalls = <<>>

\* C35 as stated: one call at most is open, a begin with its id and a
\* continuation append to it, a begin with another id and a stop flag close
\* it, and the tool calls of the final message are exactly the closed calls,
\* in closing order, with their inputs concatenated in arrival order
C35_MessageHoldsClosedCalls ==
    /\ TracksCalls
    /\ EndedWithDone =>
         /\ Len(SelectSeq(events, IsToolCallDelta))
              = Len(SelectSeq(output.content, IsToolCallPart))
         /\ MessageCalls = CallsNow.closed

\* C35 as the code has it: the tool calls of the final message are the closed
\* calls, in closing order, followed by the call that is still open when the
\* read loop ends
C35_MessageHoldsClosedThenOpenCall ==
    /\ TracksCalls
    /\ EndedWithDone =>
         /\ Len(SelectSeq(events, IsToolCallDelta))
              = Len(SelectSeq(output.content, IsToolCallPart))
         /\ MessageCalls = CallsNow.closed \o CallsNow.open

\* the turn of CallsBody is done: f was closed by the begin of g with the
\* fragments of its input in one piece, g by the stop object
C35_Witness ==
    /\ EndedWithDone
    /\ LastResponse.body = CallsBody
    /\ MessageCalls = <<[toolUseId |-> Str(tId), name |-> Str(fName), input |-> <<"{", "}">>],
                        [toolUseId |-> Str(uId), name |-> Str(gName), input |-> <<"{", "}">>]>>
    /\ currentToolCall = <<>>

\* the turn of ContinuedBody is done: the continuation before the call and
\* the one after its stop object are in no call
C35_ContinuedWitness ==
    /\ EndedWithDone
    /\ LastResponse.body = ContinuedBody
    /\ MessageCalls = <<[toolUseId |-> Str(tId), name |-> Str(fName), input |-> <<"{", "}">>]>>

\* the turn of OpenBody is done: the message holds the call that was never
\* closed after the closed one
C35_OpenWitness ==
    /\ EndedWithDone
    /\ LastResponse.body = OpenBody
    /\ Len(MessageCalls) = 2
    /\ CallsNow.open # <<>>
    /\ Len(CallsNow.closed) = 1

-----------------------------------------------------------------------------
(* Fragments and inputs that are no JSON, under StreamSpec.                  *)

IsContentEvent(e) == e.type = "content"
IsTextPart(part) == part.type = "text"

\* the answer that the content events of a piece of the body carry
AnswerOf(bytes) ==
    LET contents == SelectSeq(parseKiroEvents(bytes).events, IsContentEvent)
    IN  Concat([k \in 1..Len(contents) |-> ToJsString(contents[k].data)])

\* the answer the turn holds: the text of the message and what the thinking
\* parser still withholds of it
AnswerNow ==
    Concat([k \in 1..Len(SelectSeq(output.content, IsTextPart)) |->
              SelectSeq(output.content, IsTextPart)[k].text])
    \o thinkingParser.textBuffer

\* the bytes handled after the broken fragment
HandledAfterFragment == SubSeq(Handled, Len(BrokenFragment) + 1, Len(Handled))

\* C36: a fragment within matched braces that is no JSON gives no event and
\* the scan goes on after its closing brace; a tool call whose input is no
\* JSON is in the message with empty arguments; the turn has no error event
\* and ends with done
C36_IntegrityProblemsNotFatal ==
    /\ \A k \in DOMAIN events : events[k].type # "error"
    /\ Finished => EndedWithDone /\ output.stopReason \in {"stop", "toolUse"}
    /\ (pc \in {"read", "finished"} /\ LastResponse.body = BrokenBody) =>
         /\ Len(Handled) = 0 \/ Len(Handled) >= Len(BrokenFragment)
         /\ Len(Handled) = 0 => AnswerNow = <<>> /\ Len(events) = 1
         /\ Len(Handled) > 0 =>
              /\ AnswerNow = AnswerOf(HandledAfterFragment)
              /\ CallsNow = CallsFrom(NoCalls, parseKiroEvents(HandledAfterFragment).events, 1)
    /\ EndedWithDone =>
         \A k \in 1..Len(MessageCalls) :
            SelectSeq(output.content, IsToolCallPart)[k].arguments
              = IF JsonParse(MessageCalls[k].input).ok
                THEN JsonParse(MessageCalls[k].input).val
                ELSE Obj(<<>>)

\* the turn of BrokenBody is done: the answer is the one after the fragment,
\* and the call with the input {x has empty arguments
C36_Witness ==
    /\ EndedWithDone
    /\ LastResponse.body = BrokenBody
    /\ Handled = BrokenBody
    /\ LastEvent.reason = "toolUse"
    /\ output.content = <<[type |-> "text", text |-> <<"o", "k">>],
                          [type |-> "toolCall", id |-> Str(tId), name |-> Str(fName),
                           arguments |-> Obj(<<>>)]>>
    /\ ~JsonParse(MessageCalls[1].input).ok

\* the read loop has handled the broken fragment and nothing else
C36_FragmentWitness ==
    /\ pc = "read"
    /\ LastResponse.body = BrokenBody
    /\ Handled = BrokenFragment
    /\ events = <<[type |-> "start"]>>
    /\ output.content = <<>>

-----------------------------------------------------------------------------
(* The reads of one body compared, under StreamSpec.                         *)

\* the working record of the read loop before its first read
FreshWorking ==
    [textBuffer         |-> NewThinkingTagParser.textBuffer,
     inThinking         |-> NewThinkingTagParser.inThinking,
     thinkingExtracted  |-> NewThinkingTagParser.thinkingExtracted,
     thinkingBlockIndex |-> NewThinkingTagParser.thinkingBlockIndex,
     textBlockIndex     |-> NewThinkingTagParser.textBlockIndex,
     content            |-> NewOutput.content,
     events             |-> <<[type |-> "start"]>>,
     localTextBlockIndex |-> Null,
     totalContent       |-> <<>>,
     toolCalls          |-> <<>>,
     currentToolCall    |-> <<>>,
     usageInput         |-> NewOutput.usageInput,
     streamComplete     |-> FALSE]

\* the turn's record when the bytes arrive in a single read
InOneRead(bytes) == Assembled(HandleEvents(FreshWorking, parseKiroEvents(bytes).events, 1))

\* the message and the events of the turn are those of the record w
SameAs(w) ==
    /\ output.content = w.content
    /\ output.usageInput = w.usageInput
    /\ output.usageOutput = CeilQuarter(Len(w.totalContent))
    /\ output.stopReason = (IF Len(w.toolCalls) > 0 THEN "toolUse" ELSE "stop")
    /\ SubSeq(events, 1, Len(events) - 1) = w.events
    /\ LastEvent.reason = output.stopReason

\* whether an object follows the first context usage of the body
IsContextUsage(e) == e.type = "contextUsage"
UsageIsLast(bytes) ==
    LET evs == parseKiroEvents(bytes).events IN
    \A k \in 1..(Len(evs) - 1) : ~IsContextUsage(evs[k])

\* C38 as stated: the message and the events of a finished turn are those of
\* the body read in one piece, however the bytes were split into reads
C38_SameForEveryChunking ==
    EndedWithDone => SameAs(InOneRead(LastResponse.body))

\* what holds of the code: the reads of a body agree when no object follows
\* the context usage, and otherwise on the bytes that were handled
C38_SameUpToContextUsage ==
    EndedWithDone =>
      /\ UsageIsLast(LastResponse.body) => SameAs(InOneRead(LastResponse.body))
      /\ SameAs(InOneRead(Handled))

\* UsageBody in small reads: the answer ends with the context usage
C38_Witness ==
    /\ EndedWithDone
    /\ LastResponse.body = UsageBody
    /\ ~thinkingEnabled
    /\ output.content = <<[type |-> "text", text |-> <<"H", "i">>]>>
    /\ body # <<>>

\* UsageBody in one read: the answer goes on after the context usage
C38_OneReadWitness ==
    /\ EndedWithDone
    /\ LastResponse.body = UsageBody
    /\ ~thinkingEnabled
    /\ output.content = <<[type |-> "text", text |-> <<"H", "i", "x">>]>>
    /\ body = <<>>

-----------------------------------------------------------------------------
(* The idle timer at the end of the turn, under Spec.                        *)

\* a timer is set that has neither fired nor been cleared
TimerPending == idleTimer = "armed"

\* the timer fired after the terminal event and cancelled the reader
FiredLate == idleTimer = "late"

\* C40 as stated: once the turn has its terminal event no idle timer is
\* pending, and none fires or cancels the reader after it
C40_NoTimerAfterTerminal == Finished => ~TimerPending /\ ~FiredLate

\* what holds of the code: the timer is cleared on the way to done, and it is
\* left pending only by a read that rejects after a chunk has set it
C40_TimerClearedOnDone ==
    /\ EndedWithDone => ~TimerPending /\ ~FiredLate
    /\ (Finished /\ (TimerPending \/ FiredLate)) =>
         /\ LastEvent.type = "error"
         /\ output.errorMessage.kind \in {"readFailed", "AbortError"}
         /\ Len(body) < Len(LastResponse.body)

\* a read has failed after the first chunk: the turn has its error event and
\* the timer of the last chunk is still set
C40_Witness ==
    /\ Finished
    /\ LastEvent.type = "error"
    /\ output.errorMessage.kind = "readFailed"
    /\ TimerPending
    /\ ENABLED IdleFire

\* the timer has fired after the error event and cancelled the reader
C40_LateWitness ==
    /\ Finished
    /\ LastEvent.type = "error"
    /\ FiredLate
    /\ readerCancelled

-----------------------------------------------------------------------------
(* What the extractor gives of what it was given, under ThinkSpec.           *)

IsDelta(e) == e.type \in {"text_delta", "thinking_delta"}

\* the deltas of both kinds, in the order in which they were pushed
AllDeltas(m) ==
    LET ds == SelectSeq(m.events, IsDelta)
    IN  Concat([i \in 1..Len(ds) |-> ds[i].delta])

\* a text without a blank line it starts with
WithoutSeparator(text) == IF MatchAt(text, Separator, 0) THEN Substring(text, 2) ELSE text

\* a text from its first close marker on taken apart: what precedes the
\* marker, and what follows it with and without the blank line
WithoutClose(text) ==
    LET closeAt == IndexOf(text, THINKING_END_TAG, 0) IN
    IF closeAt = -1 THEN {text}
    ELSE {Slice(text, 0, closeAt) \o Substring(text, closeAt + Len(THINKING_END_TAG)),
          Slice(text, 0, closeAt)
            \o WithoutSeparator(Substring(text, closeAt + Len(THINKING_END_TAG)))}

\* the texts that a text becomes when its first open marker, the close marker
\* of that and at most one blank line right after the close marker leave it
WithoutMarkers(text) ==
    LET openAt == IndexOf(text, THINKING_START_TAG, 0) IN
    IF openAt = -1 THEN {text}
    ELSE {Slice(text, 0, openAt) \o rest :
            rest \in WithoutClose(Substring(text, openAt + Len(THINKING_START_TAG)))}

\* WithoutMarkers of every text of the specification
KeptTexts ==
    [shape \in ThinkShapes |->
       [a \in ThinkingTexts |->
          [b \in AnswerTexts |-> WithoutMarkers(ThinkText(shape, a, b))] @@ <<>>] @@ <<>>]
    @@ <<>>

IsPrefixOf(a, b) == Len(a) <= Len(b) /\ SubSeq(b, 1, Len(a)) = a

\* C39: after finalize the deltas of both kinds, in the order of their push,
\* are the text that was given without its first open marker, the close marker
\* of that and at most one blank line right after it; before, they are the
\* beginning of such a text, and no character is lost, doubled or moved
C39_ContentConserved ==
    LET deltas == AllDeltas(tParser) IN
    /\ \E kept \in KeptTexts[tShape][tA][tB] : IsPrefixOf(deltas, kept)
    /\ tFinal =>
         /\ deltas \in KeptTexts[tShape][tA][tB]
         /\ tParser.textBuffer = <<>>

\* p<thinking>a</thinking>b and the second section were given in three
\* chunks and finalized: the deltas are p, a, b and the second section whole
C39_Witness ==
    /\ tFinal /\ tShape = "again" /\ tA = <<"a">> /\ tB = <<"b">>
    /\ Cardinality(tCuts) = 3
    /\ AllDeltas(tParser) = <<"p", "a", "b">> \o Second

\* the blank line was cut from the close marker: it is kept
C39_SeparatorKeptWitness ==
    /\ tFinal /\ tShape = "closed" /\ tA = <<"a">> /\ tB = <<"b">>
    /\ AllDeltas(tParser) = <<"a">> \o Separator \o <<"b">>

\* the blank line came with the close marker: it is left out
C39_SeparatorLeftOutWitness ==
    /\ tFinal /\ tShape = "closed" /\ tA = <<"a">> /\ tB = <<"b">>
    /\ AllDeltas(tParser) = <<"a", "b">>

-----------------------------------------------------------------------------
(* The requests of one turn whose context has texts near the limits of the   *)
(* retries: system prompts a few characters over a limit, a history over the *)
(* history limit, and catalogs of up to four tools. The attempts are those   *)
(* of RequestSpec.                                                           *)

\* a text of n characters
Chars(n, char) == [k \in 1..n |-> char]

\* the prompts: none, a short one, and prompts at and over the limits of the
\* first and the second retry and of no retry
ShrinkPrompts ==
    { <<>>,
      Chars(1, "S"),
      Chars(FloorTimes(SystemPromptLimit, 490) + 10, "S"),
      Chars(FloorTimes(SystemPromptLimit, 700), "S"),
      Chars(FloorTimes(SystemPromptLimit, 700) + 10, "S"),
      Chars(SystemPromptLimit + 10, "S") }

\* a tool result ten characters over the limit of the first retry, and
\* whether truncate makes it longer with that limit
LongResult == Chars(FloorTimes(TOOL_RESULT_LIMIT, 700) + 10, "x")
LongResultGrows ==
    /\ truncate(LongResult, FloorTimes(TOOL_RESULT_LIMIT, 1000)) = LongResult
    /\ Len(truncate(LongResult, FloorTimes(TOOL_RESULT_LIMIT, 700)))
         = Len(LongResult) - 10 + Len(TruncatedMark)

ShrinkMessageLists ==
    { <<UserMessage(Text(<<"u">>))>>,
      <<UserMessage(Text(<<"u">>)),
        AssistantMessage(<<TextBlock(<<"t">>)>>, "stop"),
        UserMessage(Text(<<"v">>))>>,
      <<UserMessage(Text(<<"u">>)),
        AssistantMessage(<<ToolCallBlock(ToolF, IdA)>>, "toolUse"),
        ToolResultMessage(IdA, <<"o", "k">>, FALSE)>>,
      <<UserMessage(Filled(<<"u">>, BigFill)),
        AssistantMessage(<<TextBlock(<<"t">>)>>, "stop"),
        UserMessage(Filled(<<"u">>, BigFill)),
        AssistantMessage(<<TextBlock(<<"t">>)>>, "stop"),
        UserMessage(Text(<<"v">>))>> }

ShrinkInit ==
    /\ qMessages \in ShrinkMessageLists
    /\ qTools \in ContextTools
    /\ qSystemPrompt \in ShrinkPrompts
    /\ qRetryCount = 0
    /\ qFactor = 1000
    /\ qSends = 0
    /\ qRequest = NoRequest
    /\ qArrays = CallerArrays
    /\ qHistoryArray = 0
    /\ TurnQuiet
    /\ ParserQuiet
    /\ ClassifyQuiet
    /\ ThinkQuiet
    /\ HistoryQuiet

ShrinkSpec == ShrinkInit /\ [][RequestNext]_vars

-----------------------------------------------------------------------------
(* The sizes of the request from one attempt to the next, under ShrinkSpec.  *)

\* the size components of the request req built with the factor r
PromptLength(r) == Len(EffectiveSystemPrompt(qSystemPrompt, r))
ResultLengths(req) ==
    IF req.toolResults = <<>> THEN <<>>
    ELSE [k \in 1..Len(req.toolResults[1]) |-> Len(req.toolResults[1][k].text)]
CatalogSize(req) == IF req.tools = <<>> THEN 0 ELSE Len(req.tools[1])
SerializedHistory(req) == IF req.history = <<>> THEN 0 ELSE HistorySize(req.history[1])

\* the step is a retry
Retries == qSends > 0 /\ qSends' = qSends + 1

\* C37 as stated: the request of a retry has no size component greater than
\* the request before it: the serialized history, each tool-result text, the
\* system prompt and the tool catalog
C37_RetryNeverGrows ==
    [][Retries =>
         /\ qFactor' = Reduce(qFactor)
         /\ SerializedHistory(qRequest') <= SerializedHistory(qRequest)
         /\ Len(ResultLengths(qRequest')) = Len(ResultLengths(qRequest))
         /\ \A k \in DOMAIN ResultLengths(qRequest) :
               ResultLengths(qRequest')[k] <= ResultLengths(qRequest)[k]
         /\ PromptLength(qFactor') <= PromptLength(qFactor)
         /\ CatalogSize(qRequest') <= CatalogSize(qRequest)]_vars

\* what holds of the code: the catalog never grows; a text that a retry cuts
\* is the size of its limit and the note, which can be more than it was
C37_RetryGrowsByTheNoteAtMost ==
    [][Retries =>
         /\ LongResultGrows
         /\ qFactor' = Reduce(qFactor)
         /\ CatalogSize(qRequest') <= CatalogSize(qRequest)
         /\ PromptLength(qFactor') <= PromptLength(qFactor)
              \/ PromptLength(qFactor')
                   = FloorTimes(SystemPromptLimit, qFactor') + Len(TruncatedNote)
         /\ Len(ResultLengths(qRequest')) = Len(ResultLengths(qRequest))
         /\ \A k \in DOMAIN ResultLengths(qRequest) :
               \/ ResultLengths(qRequest')[k] <= ResultLengths(qRequest)[k]
               \/ ResultLengths(qRequest')[k]
                    = 2 * (FloorTimes(TOOL_RESULT_LIMIT, qFactor') \div 2) + Len(TruncatedMark)
         /\ SerializedHistory(qRequest')
              <= SerializedHistory(qRequest) + Len(Quote(TruncatedNote)) - 2]_vars

\* the first retry of a turn whose system prompt is ten characters over the
\* limit of that retry: the prompt of the request is longer than the caller's
C37_Witness ==
    /\ qRetryCount = 1
    /\ Len(qSystemPrompt) = FloorTimes(SystemPromptLimit, 700) + 10
    /\ PromptLength(qFactor) = FloorTimes(SystemPromptLimit, 700) + Len(TruncatedNote)
    /\ PromptLength(qFactor) > PromptLength(1000)

\* the first retry with a prompt over its limit and a history: the history
\* is bigger than the one of the first attempt
C37_HistoryWitness ==
    /\ qRetryCount = 1
    /\ Len(qSystemPrompt) = FloorTimes(SystemPromptLimit, 700) + 10
    /\ SerializedHistory(qRequest)
         > SerializedHistory(RequestOf(qMessages, qTools, qSystemPrompt, TestModelId, 1000))
    /\ SerializedHistory(qRequest) > 0

=============================================================================
